---- MODULE Spec2Model ----
\* A model of the sqlb statement builder (SELECT / INSERT state machine and
\* renderer), of the ScannedRows cursor and of the scanRows row correlator.
EXTENDS Integers, Sequences, FiniteSets, TLC

\* ---------------------------------------------------------------------------
\* Bounds of the model
\* ---------------------------------------------------------------------------
\* longest list of records handed to Values
MaxRows == 2
\* longest DO UPDATE / DO UPDATE WHERE token stream an INSERT builder accumulates
MaxTokens == 3
\* most entries the calls hand a SELECT builder for its column, join, token,
\* argument and order lists together
MaxSize == 2
\* most physical rows the row source of a scan holds
MaxPhysical == 2
\* most record types a program registers
MaxRegistered == 2

\* ---------------------------------------------------------------------------
\* Small helpers on sequences and maps (Go slices and maps)
\* ---------------------------------------------------------------------------
EmptyMap == << >>

MapPut(m, k, v) ==
    [x \in (DOMAIN m) \cup {k} |-> IF x = k THEN v ELSE m[x]]

SeqOfUpTo(S, n) ==
    UNION {[1..k -> S] : k \in 0..n}

Range(s) ==
    {s[i] : i \in DOMAIN s}

\* ---------------------------------------------------------------------------
\* types.go: the string-valued enums
\* ---------------------------------------------------------------------------
sqlBuilderTypeSelect == "SELECT"
sqlBuilderTypeInsert == "INSERT"

notSelectTypeBasic == "-"
selectTypeBasic == "SELECT"
selectTypeExists == "SELECT EXISTS"
selectTypeCount == "SELECT COUNT"

nonePrevious == "none"
previousIsSelect == "SELECT"
previousIsSelectFrom == "SELECT FROM"
previousIsSelectJoin == "SELECT JOIN"
previousIsSelectWhere == "SELECT WHERE"
previousIsSelectOrderBy == "SELECT ORDER BY"
previousIsSelectOffset == "SELECT OFFSET"
previousIsSelectLimit == "SELECT LIMIT"
previousIsInsertInto == "INSERT INTO"
previousIsInsertIntoValues == "INSERT VALUES"
previousIsInsertIntoOnConflict == "INSERT ON CONFLICT"
previousIsInsertIntoOnConflictDoUpdate == "INSERT ON CONFLICT DO UPDATE"
previousIsInsertIntoOnConflictDoUpdateWhere == "INSERT ON CONFLICT DO UPDATE WHERE"
previousIsInsertIntoOnConflictDoNoThing == "INSERT ON CONFLICT DO NOTHING"

InnerJoin == "InnerJoin"
LeftJoin == "LeftJoin"
RightJoin == "RightJoin"

ASC == TRUE
DESC == FALSE

\* ---------------------------------------------------------------------------
\* table_metadata.go: the package-level state
\* ---------------------------------------------------------------------------
VARIABLES
    sqlKeywords,               \* the names that are double-quoted
    registeredTableTypeToName, \* record type name -> table name
    registeredTables,          \* table name -> table metadata
    declared                   \* record type name -> what its registration was
                               \* handed and what it stored (history)

regVars == << sqlKeywords, registeredTableTypeToName, registeredTables, declared >>

\* ---------------------------------------------------------------------------
\* table_metadata.go: keyword quoting
\* ---------------------------------------------------------------------------
\* the keywords init() puts in sqlKeywords
predefinedList ==
    {"count", "index", "name", "type", "types", "from", "to", "order", "value",
     "state", "time", "left", "right", "day", "local"}

wrapWithDoubleQuoteIfSqlKeyword(name) ==
    IF name \in sqlKeywords THEN "\"" \o name \o "\"" ELSE name

\* ---------------------------------------------------------------------------
\* The registered tables: the two record types of the package's fixtures.
\* A column: its name, its primary-key flag, the struct field it maps, the Go
\* type of its scan target, and whether its select spec scans into a raw
\* string that a deferred transform (parseMoney) converts.
\* ---------------------------------------------------------------------------
Col(name, isPk, field, goType, raw) ==
    [name |-> name, isPk |-> isPk,
     field |-> field, goType |-> goType, raw |-> raw]

tableTest1 ==
    [name |-> "table1", typeName |-> "testStruct1",
     columns |-> << Col("pk1", TRUE, "Pk1", "string", FALSE),
                    Col("pk2", TRUE, "Pk2", "int", FALSE),
                    Col("amount", FALSE, "Amount", "int", FALSE),
                    Col("cost", FALSE, "Cost", "string", TRUE) >>]

tableTest2 ==
    [name |-> "table2", typeName |-> "testStruct2",
     columns |-> << Col("pk1", TRUE, "Pk1", "string", FALSE),
                    Col("pk2", TRUE, "Pk2", "int", FALSE),
                    Col("pk3", TRUE, "Pk3", "int64", FALSE),
                    Col("amount", FALSE, "Amount", "string", TRUE) >>]

\* the registries once the two fixtures are registered
testTables ==
    [n \in {"table1", "table2"} |-> IF n = "table1" THEN tableTest1 ELSE tableTest2]

testTableTypeToName ==
    [t \in {"testStruct1", "testStruct2"} |->
        IF t = "testStruct1" THEN "table1" ELSE "table2"]

\* GetTableMetadata[T]() panics: T is not registered, or the table registered
\* under T's table name is not a TableMetadata[T] (the type assertion)
GetTableMetadataPanics(typeName) ==
    \/ typeName \notin DOMAIN registeredTableTypeToName
    \/ registeredTables[registeredTableTypeToName[typeName]].typeName # typeName

GetTableMetadata(typeName) ==
    registeredTables[registeredTableTypeToName[typeName]]

ColumnsName(meta) ==
    [i \in DOMAIN meta.columns |-> meta.columns[i].name]

HasColumn(meta, name) ==
    \E i \in DOMAIN meta.columns :
        meta.columns[i].name = wrapWithDoubleQuoteIfSqlKeyword(name)

\* columnsByName[wrap(name)]; the caller checks HasColumn first (the panic)
MustGetColumnByName(meta, name) ==
    LET i == CHOOSE i \in DOMAIN meta.columns :
                 meta.columns[i].name = wrapWithDoubleQuoteIfSqlKeyword(name)
    IN  meta.columns[i]

\* ---------------------------------------------------------------------------
\* use_table.go: table descriptors (TableToUse) and columns (GenericColumnToUse)
\* ---------------------------------------------------------------------------
\* UseTable[T]().As(name).Alias(alias), sealed or not
UseTable(uid, typeName, name, alias, sealed) ==
    [uid |-> uid, sealed |-> sealed, typeName |-> typeName,
     name |-> name, alias |-> alias]

tableName(t) == t.name
tableAlias(t) == t.alias
uniqueIdentity(t) == t.uid
\* t.metadata, which UseTable took from the registry when the descriptor was
\* made: the descriptors of the model are made once the fixtures are registered
genericTableMeta(t) == testTables[testTableTypeToName[t.typeName]]

newGenericColumnToUse(col, table) ==
    [name |-> col.name, isPk |-> col.isPk, table |-> table]

allColumns(t) ==
    [i \in DOMAIN genericTableMeta(t).columns |->
        newGenericColumnToUse(genericTableMeta(t).columns[i], t)]

\* t.Col(name) on a sealed table with a registered column name
ColOf(t, name) ==
    newGenericColumnToUse(MustGetColumnByName(genericTableMeta(t), name), t)

nameWithAlias(c) == tableAlias(c.table) \o "." \o c.name

\* the outcome of a call on a descriptor: the descriptor after it, and whether
\* the call panicked
Described(t) == [t |-> t, panic |-> FALSE]
Undescribed(t) == [t |-> t, panic |-> TRUE]

mustNotSealed(t) ==
    ~t.sealed

mustSealed(t) ==
    t.sealed

As(t, name) ==
    IF ~mustNotSealed(t) THEN Undescribed(t)
    ELSE IF name = "" THEN Undescribed(t)
    ELSE IF t.name # genericTableMeta(t).name THEN Undescribed(t)
    ELSE Described([t EXCEPT !.name = name])

Alias(t, alias) ==
    IF ~mustNotSealed(t) THEN Undescribed(t)
    ELSE IF alias = "" THEN Undescribed(t)
    ELSE IF t.alias # genericTableMeta(t).name THEN Undescribed(t)
    ELSE Described([t EXCEPT !.alias = alias])

\* sealed is set before the name and the alias are looked at
Seal(t) ==
    LET sealed == [t EXCEPT !.sealed = TRUE]
    IN  IF Len(t.name) = 0 \/ Len(t.alias) = 0 THEN Undescribed(sealed)
        ELSE Described(sealed)

\* t.Columns(columns...) panics: the descriptor is not sealed, or a name is
\* not a column of the table
ColumnsPanics(t, columns) ==
    \/ ~mustSealed(t)
    \/ \E i \in DOMAIN columns : ~HasColumn(genericTableMeta(t), columns[i])

\* t.Columns(columns...): the columns of the names, all of them for no name
Columns(t, columns) ==
    LET names == IF Len(columns) = 0 THEN ColumnsName(genericTableMeta(t)) ELSE columns
    IN  [panic |-> ColumnsPanics(t, columns),
         columns |-> IF ColumnsPanics(t, columns) THEN << >>
                     ELSE [i \in DOMAIN names |-> ColOf(t, names[i])]]

\* t.ColumnsExcept(exceptColumns...): the names of the table that are not in
\* trackerExcept, handed to Columns
ColumnsExcept(t, exceptColumns) ==
    LET trackerExcept == {wrapWithDoubleQuoteIfSqlKeyword(exceptColumns[i]) :
                             i \in DOMAIN exceptColumns}
        Kept(columnName) == columnName \notin trackerExcept
    IN  IF ~mustSealed(t) \/ Len(exceptColumns) = 0
        THEN [panic |-> TRUE, columns |-> << >>]
        ELSE Columns(t, SelectSeq(ColumnsName(genericTableMeta(t)), Kept))

Excluded(c) == "excluded." \o c.name
FromExcluded(c) == c.name \o " = " \o Excluded(c)

\* ---------------------------------------------------------------------------
\* Go values of type any: the dynamic type t and the value, a string in s, a
\* number in n (a bool as 1 or 0), a column in c; a Money has its Currency in
\* s and its Amount in n.  A string is the decimal digits of n followed by the
\* text s, or the text s alone when n is NoDigits: what fmt.Sscanf("%d%s")
\* reads back from it.
\* ---------------------------------------------------------------------------
NoDigits == -1

NoTable == UseTable(0, "", "", "", FALSE)
NoColumn == [name |-> "", isPk |-> FALSE, table |-> NoTable]

GoValue(t, s, n, c) == [t |-> t, s |-> s, n |-> n, c |-> c]
GoInt(n) == GoValue("int", "", n, NoColumn)
GoInt64(n) == GoValue("int64", "", n, NoColumn)
GoString(s) == GoValue("string", s, NoDigits, NoColumn)
DigitsThen(n, s) == GoValue("string", s, n, NoColumn)
GoBool(x) == GoValue("bool", "", IF x THEN 1 ELSE 0, NoColumn)
GoFloat(n) == GoValue("float64", "", n, NoColumn)
Money(currency, amount) == GoValue("Money", currency, amount, NoColumn)

\* WHERE / DO UPDATE tokens are Go values of type any; a column token is a
\* GenericColumnToUse
ColumnToken(c) == GoValue("GenericColumnToUse", "", 0, c)

\* the digit a text of the model opens with, and the text after it: "2x" is
\* the only text with a leading digit
LeadingDigit(str) ==
    IF str = "2x" THEN 2 ELSE NoDigits

AfterLeadingDigit(str) ==
    IF str = "2x" THEN "x" ELSE str

\* what the verb %s reads of a text: the text up to the first white space;
\* "us d" is the only text of the model with white space
FirstWord(str) ==
    IF str = "us d" THEN "us" ELSE str

\* Money.String(): fmt.Sprintf("%d%s", c.Amount, c.Currency); the digits the
\* currency opens with follow those of the amount
MoneyString(c) ==
    IF LeadingDigit(c.s) = NoDigits THEN DigitsThen(c.n, c.s)
    ELSE DigitsThen(10 * c.n + LeadingDigit(c.s), AfterLeadingDigit(c.s))

\* parseMoney: the empty string is refused, and so is a string that
\* Sscanf("%d%s") cannot read: one without a leading number or without text
\* after it
parseMoneyFails(moneyStr) ==
    \/ moneyStr.n = NoDigits
    \/ moneyStr.s = ""

parseMoney(moneyStr) ==
    IF parseMoneyFails(moneyStr) THEN Money("", 0)
    ELSE Money(FirstWord(moneyStr.s), moneyStr.n)

\* The descriptors the callers of the model hold
t1 == UseTable(1, "testStruct1", "table1", "t1", TRUE)
t2 == UseTable(2, "testStruct2", "table2", "t2", TRUE)
\* another instance of the same record type under the alias of t1
t1dup == UseTable(3, "testStruct1", "table1", "t1", TRUE)
\* an instance of the other record type under the alias of t1
t2asT1 == UseTable(4, "testStruct2", "table2", "t1", TRUE)
\* a second instance of testStruct1 under an alias of its own
still1 == UseTable(5, "testStruct1", "table1", "still1", TRUE)
\* a descriptor that was never sealed
unsealed1 == UseTable(6, "testStruct1", "table1", "table1", FALSE)

Tables == {t1, t2, t1dup, t2asT1, still1, unsealed1}

\* ---------------------------------------------------------------------------
\* The builder (part_000: type SqlBuilder) and the outcome of a call on it:
\* the builder as the call leaves it, and whether the call panicked.
\* ---------------------------------------------------------------------------
newSqlBuilder ==
    [_type |-> sqlBuilderTypeSelect,
     previousAction |-> nonePrevious,
     aliasToTableUniqueId |-> EmptyMap,
     tableUniqueIdToAlias |-> EmptyMap,
     selectType |-> notSelectTypeBasic,
     selectColumns |-> << >>,
     selectFromTable |-> << >>,
     joinsOn |-> << >>,
     whereTokens |-> << >>,
     whereArgs |-> << >>,
     orders |-> << >>,
     offset |-> 0,
     limit |-> 0,
     insertIntoTable |-> << >>,
     insertColumns |-> << >>,
     insertValues |-> << >>,
     insertOnConflictKeys |-> << >>,
     insertOnConflictDoUpdateTokens |-> << >>,
     insertOnConflictDoUpdateWhereTokens |-> << >>,
     insertOnConflictDoNothing |-> FALSE]

Ok(bb) == [b |-> bb, panic |-> FALSE]
Panic(bb) == [b |-> bb, panic |-> TRUE]

setPreviousAction(bb, a) ==
    [bb EXCEPT !.previousAction = a]

\* a deferred setPreviousAction runs on return and on panic alike
Deferred(r, a) ==
    [r EXCEPT !.b = setPreviousAction(r.b, a)]

\* a check of the previous action that lets every call through
mustPreviousActionAny(bb, expected) ==
    TRUE

mustPreviousAction(bb, expected) ==
    bb.previousAction \in expected

\* a check of the kind that lets every builder through
mustTypeAny(bb) ==
    TRUE

mustTypeSelect(bb) ==
    bb._type = sqlBuilderTypeSelect

mustSelectType(bb, type) ==
    mustTypeSelect(bb) /\ bb.selectType = type

mustBasicSelect(bb) ==
    mustSelectType(bb, selectTypeBasic)

mustTypeInsert(bb) ==
    bb._type = sqlBuilderTypeInsert

\* a registration that rebinds an alias that another table holds
registerUsingTableRebinding(bb, use) ==
    IF ~mustSealed(use) THEN Panic(bb)
    ELSE Ok([bb EXCEPT
                !.aliasToTableUniqueId = MapPut(@, tableAlias(use), uniqueIdentity(use)),
                !.tableUniqueIdToAlias = MapPut(@, uniqueIdentity(use), tableAlias(use))])

\* a registration that leaves tableUniqueIdToAlias alone
registerUsingTableOneWay(bb, use) ==
    IF ~mustSealed(use) THEN Panic(bb)
    ELSE IF tableAlias(use) \in DOMAIN bb.aliasToTableUniqueId
            /\ bb.aliasToTableUniqueId[tableAlias(use)] # uniqueIdentity(use)
    THEN Panic(bb)
    ELSE Ok([bb EXCEPT
                !.aliasToTableUniqueId = MapPut(@, tableAlias(use), uniqueIdentity(use))])

registerUsingTable(bb, use) ==
    IF ~mustSealed(use) THEN Panic(bb)
    ELSE LET alias == tableAlias(use)
             uid == uniqueIdentity(use)
         IN  IF alias \in DOMAIN bb.aliasToTableUniqueId
                 /\ bb.aliasToTableUniqueId[alias] # uid
             THEN Panic(bb)
             ELSE Ok([bb EXCEPT
                     !.aliasToTableUniqueId = MapPut(@, alias, uid),
                     !.tableUniqueIdToAlias = MapPut(@, uid, alias)])

\* registerUsingTable for each table of a list, in order, up to the first panic
RECURSIVE registerEach(_, _)
registerEach(bb, tables) ==
    IF tables = << >> THEN Ok(bb)
    ELSE LET r == registerUsingTable(bb, Head(tables))
         IN  IF r.panic THEN r ELSE registerEach(r.b, Tail(tables))

TablesOf(columns) ==
    [i \in DOMAIN columns |-> columns[i].table]

\* ---------------------------------------------------------------------------
\* part_000: the SELECT calls. Each returns the outcome of the call on bb.
\* ---------------------------------------------------------------------------
Select(bb, columns) ==
    IF ~mustTypeSelect(bb) THEN Panic(bb)
    ELSE IF ~mustBasicSelect(bb) THEN Panic(bb)
    ELSE IF ~mustPreviousAction(bb, {previousIsSelect}) THEN Panic(bb)
    ELSE LET r == registerEach(bb, TablesOf(columns))
         IN  Deferred(IF r.panic THEN r
                      ELSE Ok([r.b EXCEPT !.selectColumns = @ \o columns]),
                      previousIsSelect)

From(bb, tables) ==
    IF ~mustTypeSelect(bb) THEN Panic(bb)
    ELSE IF ~mustPreviousAction(bb, {previousIsSelect, previousIsSelectFrom})
    THEN Panic(bb)
    ELSE LET r == registerEach(bb, tables)
         IN  Deferred(IF r.panic THEN r
                      ELSE Ok([r.b EXCEPT !.selectFromTable = tables]),
                      previousIsSelectFrom)

\* the loop of Join over the key pairs: validate the pair, register both owners
RECURSIVE joinEachPair(_, _, _)
joinEachPair(bb, joinOnTableName, onKeyPairs) ==
    IF onKeyPairs = << >> THEN Ok(bb)
    ELSE LET leftTable == onKeyPairs[1].table
             rightTable == onKeyPairs[2].table
         IN  IF tableName(leftTable) = tableName(rightTable) THEN Panic(bb)
             ELSE IF tableName(leftTable) # joinOnTableName
                     /\ tableName(rightTable) # joinOnTableName
             THEN Panic(bb)
             ELSE LET r1 == registerUsingTable(bb, leftTable)
                  IN  IF r1.panic THEN r1
                      ELSE LET r2 == registerUsingTable(r1.b, rightTable)
                           IN  IF r2.panic THEN r2
                               ELSE joinEachPair(r2.b, joinOnTableName,
                                        SubSeq(onKeyPairs, 3, Len(onKeyPairs)))

Join(bb, joinType, joinOnTable, onKeyPairs) ==
    IF ~mustTypeSelect(bb) THEN Panic(bb)
    ELSE IF ~mustPreviousAction(bb, {previousIsSelectFrom, previousIsSelectJoin})
    THEN Panic(bb)
    ELSE IF Len(onKeyPairs) % 2 # 0 THEN Panic(bb)
    ELSE LET r == joinEachPair(bb, tableName(joinOnTable), onKeyPairs)
         IN  Deferred(IF r.panic THEN r
                      ELSE Ok([r.b EXCEPT !.joinsOn = Append(@,
                                  [joinType |-> joinType,
                                   joinOnTable |-> joinOnTable,
                                   joinOnColumns |-> onKeyPairs])]),
                      previousIsSelectJoin)

Where(bb, whereTokens) ==
    IF bb._type = sqlBuilderTypeSelect
    THEN IF ~mustPreviousAction(bb, {previousIsSelectFrom, previousIsSelectJoin,
                                     previousIsSelectWhere})
         THEN Panic(bb)
         ELSE Ok(setPreviousAction(
                     [bb EXCEPT !.whereTokens = @ \o whereTokens],
                     previousIsSelectWhere))
    ELSE IF bb._type = sqlBuilderTypeInsert
    THEN IF ~mustPreviousAction(bb, {previousIsInsertIntoOnConflictDoUpdate})
         THEN Panic(bb)
         ELSE Ok(setPreviousAction(
                     [bb EXCEPT !.insertOnConflictDoUpdateWhereTokens = whereTokens],
                     previousIsInsertIntoOnConflictDoUpdateWhere))
    ELSE Panic(bb)

\* And and Or differ in the connective only
AndOr(bb, connective, whereTokens) ==
    IF bb._type = sqlBuilderTypeSelect
    THEN IF ~mustPreviousAction(bb, {previousIsSelectWhere}) THEN Panic(bb)
         ELSE IF Len(bb.whereTokens) = 0 THEN Panic(bb)
         ELSE IF Len(whereTokens) = 0 THEN Panic(bb)
         ELSE Ok([bb EXCEPT !.whereTokens =
                     Append(@, GoString(connective)) \o whereTokens])
    ELSE IF bb._type = sqlBuilderTypeInsert
    THEN IF ~mustPreviousAction(bb, {previousIsInsertIntoOnConflictDoUpdateWhere})
         THEN Panic(bb)
         ELSE IF Len(bb.insertOnConflictDoUpdateWhereTokens) = 0 THEN Panic(bb)
         ELSE IF Len(whereTokens) = 0 THEN Panic(bb)
         ELSE Ok([bb EXCEPT !.insertOnConflictDoUpdateWhereTokens =
                     Append(@, GoString(connective)) \o whereTokens])
    ELSE Panic(bb)

\* And without its connective: the tokens follow as after Where
AndAsWhere(bb, whereTokens) ==
    Where(bb, whereTokens)

And(bb, whereTokens) ==
    AndOr(bb, "AND", whereTokens)

Or(bb, whereTokens) ==
    AndOr(bb, "OR", whereTokens)

Args(bb, whereArgs) ==
    IF ~mustTypeSelect(bb) THEN Panic(bb)
    ELSE IF ~mustPreviousAction(bb, {previousIsSelectWhere}) THEN Panic(bb)
    ELSE Ok([bb EXCEPT !.whereArgs = @ \o whereArgs])

OrderBy(bb, column, asc) ==
    IF ~mustTypeSelect(bb) THEN Panic(bb)
    ELSE IF ~mustBasicSelect(bb) THEN Panic(bb)
    ELSE IF ~mustPreviousAction(bb, {previousIsSelectFrom, previousIsSelectJoin,
                                     previousIsSelectWhere, previousIsSelectOrderBy})
    THEN Panic(bb)
    ELSE Ok(setPreviousAction(
                [bb EXCEPT !.orders = Append(@, [column |-> column, asc |-> asc])],
                previousIsSelectOrderBy))

\* ThenBy without its check of the previous action
ThenByAnywhere(bb, column, asc) ==
    IF ~mustTypeSelect(bb) THEN Panic(bb)
    ELSE IF ~mustBasicSelect(bb) THEN Panic(bb)
    ELSE Ok([bb EXCEPT !.orders = Append(@, [column |-> column, asc |-> asc])])

ThenBy(bb, column, asc) ==
    IF ~mustTypeSelect(bb) THEN Panic(bb)
    ELSE IF ~mustBasicSelect(bb) THEN Panic(bb)
    ELSE IF ~mustPreviousAction(bb, {previousIsSelectOrderBy}) THEN Panic(bb)
    ELSE Ok([bb EXCEPT !.orders = Append(@, [column |-> column, asc |-> asc])])

Offset(bb, offset) ==
    IF ~mustTypeSelect(bb) THEN Panic(bb)
    ELSE IF ~mustBasicSelect(bb) THEN Panic(bb)
    ELSE IF ~mustPreviousAction(bb, {previousIsSelectFrom, previousIsSelectJoin,
                                     previousIsSelectWhere, previousIsSelectOrderBy,
                                     previousIsSelectLimit})
    THEN Panic(bb)
    ELSE Ok(setPreviousAction([bb EXCEPT !.offset = offset], previousIsSelectOffset))

\* Limit with previousIsSelectOffset left out of its predecessors
LimitNotAfterOffset(bb, limit) ==
    IF ~mustTypeSelect(bb) THEN Panic(bb)
    ELSE IF ~mustBasicSelect(bb) THEN Panic(bb)
    ELSE IF ~mustPreviousAction(bb, {previousIsSelectFrom, previousIsSelectJoin,
                                     previousIsSelectWhere, previousIsSelectOrderBy})
    THEN Panic(bb)
    ELSE Deferred(Ok([bb EXCEPT !.limit = limit]), previousIsSelectLimit)

Limit(bb, limit) ==
    IF ~mustTypeSelect(bb) THEN Panic(bb)
    ELSE IF ~mustBasicSelect(bb) THEN Panic(bb)
    ELSE IF ~mustPreviousAction(bb, {previousIsSelectFrom, previousIsSelectJoin,
                                     previousIsSelectWhere, previousIsSelectOrderBy,
                                     previousIsSelectOffset})
    THEN Panic(bb)
    ELSE Ok(setPreviousAction([bb EXCEPT !.limit = limit], previousIsSelectLimit))

\* ---------------------------------------------------------------------------
\* part_000: the INSERT calls
\* ---------------------------------------------------------------------------
\* a record handed to Values: a struct value or a pointer to one
StructValue(typeName, rec) == [ptr |-> FALSE, typeName |-> typeName, rec |-> rec]
PointerTo(val) == [val EXCEPT !.ptr = TRUE]

\* reflect: the name of the type, or of the pointed-to type for a pointer
getStructTypeName(val) ==
    val.typeName

AllOfType(values, typeName) ==
    \A i \in DOMAIN values : getStructTypeName(values[i]) = typeName

Values(bb, values) ==
    IF ~mustTypeInsert(bb) THEN Panic(bb)
    ELSE IF ~mustPreviousAction(bb, {previousIsInsertInto}) THEN Panic(bb)
    ELSE Deferred(IF ~AllOfType(values, genericTableMeta(bb.insertIntoTable[1]).typeName)
                  THEN Panic(bb)
                  ELSE Ok([bb EXCEPT !.insertValues = values]),
                  previousIsInsertIntoValues)

OnConflict(bb, columns) ==
    IF ~mustTypeInsert(bb) THEN Panic(bb)
    ELSE IF ~mustPreviousAction(bb, {previousIsInsertIntoValues}) THEN Panic(bb)
    ELSE Deferred(IF Len(bb.insertOnConflictKeys) > 0 THEN Panic(bb)
                  ELSE IF \E i \in DOMAIN columns :
                             tableName(columns[i].table)
                                 # tableName(bb.insertIntoTable[1])
                  THEN Panic(bb)
                  ELSE Ok([bb EXCEPT !.insertOnConflictKeys = columns]),
                  previousIsInsertIntoOnConflict)

\* DoUpdate that joins the tokens of successive calls without the comma token
DoUpdateWithoutComma(bb, tokens) ==
    IF ~mustTypeInsert(bb) THEN Panic(bb)
    ELSE IF ~mustPreviousAction(bb, {previousIsInsertIntoOnConflict,
                                     previousIsInsertIntoOnConflictDoUpdate})
    THEN Panic(bb)
    ELSE Deferred(IF Len(bb.insertOnConflictKeys) < 1 THEN Panic(bb)
                  ELSE Ok([bb EXCEPT !.insertOnConflictDoUpdateTokens = @ \o tokens]),
                  previousIsInsertIntoOnConflictDoUpdate)

DoUpdate(bb, tokens) ==
    IF ~mustTypeInsert(bb) THEN Panic(bb)
    ELSE IF ~mustPreviousAction(bb, {previousIsInsertIntoOnConflict,
                                     previousIsInsertIntoOnConflictDoUpdate})
    THEN Panic(bb)
    ELSE Deferred(IF Len(bb.insertOnConflictKeys) < 1 THEN Panic(bb)
                  ELSE Ok([bb EXCEPT !.insertOnConflictDoUpdateTokens =
                              (IF Len(@) > 0 THEN Append(@, GoString(",\n")) ELSE @)
                                  \o tokens]),
                  previousIsInsertIntoOnConflictDoUpdate)

\* a token list that assigns the primary keys as well
RECURSIVE everyColumnTokens(_, _)
everyColumnTokens(columns, tokens) ==
    IF columns = << >> THEN tokens
    ELSE everyColumnTokens(Tail(columns),
             Append(IF Len(tokens) > 0 THEN Append(tokens, GoString(",\n")) ELSE tokens,
                    GoString(FromExcluded(Head(columns)))))

\* the token list DoUpdateExceptPrimaryKeys composes from the table's columns
RECURSIVE exceptPrimaryKeysTokens(_, _)
exceptPrimaryKeysTokens(columns, tokens) ==
    IF columns = << >> THEN tokens
    ELSE IF Head(columns).isPk
    THEN exceptPrimaryKeysTokens(Tail(columns), tokens)
    ELSE exceptPrimaryKeysTokens(Tail(columns),
             Append(IF Len(tokens) > 0 THEN Append(tokens, GoString(",\n")) ELSE tokens,
                    GoString(FromExcluded(Head(columns)))))

DoUpdateExceptPrimaryKeys(bb) ==
    IF ~mustTypeInsert(bb) THEN Panic(bb)
    ELSE DoUpdate(bb, exceptPrimaryKeysTokens(allColumns(bb.insertIntoTable[1]), << >>))

\* DoNothing without its check of the previous action
DoNothingAnywhere(bb) ==
    IF ~mustTypeInsert(bb) THEN Panic(bb)
    ELSE Deferred(Ok([bb EXCEPT !.insertOnConflictDoNothing = TRUE]),
                  previousIsInsertIntoOnConflictDoNoThing)

DoNothing(bb) ==
    IF ~mustTypeInsert(bb) THEN Panic(bb)
    ELSE IF ~mustPreviousAction(bb, {previousIsInsertIntoOnConflict}) THEN Panic(bb)
    ELSE Ok(setPreviousAction([bb EXCEPT !.insertOnConflictDoNothing = TRUE],
                              previousIsInsertIntoOnConflictDoNoThing))

\* ---------------------------------------------------------------------------
\* part_000: the constructors. A constructor that panics returns no builder.
\* ---------------------------------------------------------------------------
NewSelect(columns) ==
    Select([newSqlBuilder EXCEPT !._type = sqlBuilderTypeSelect,
                                 !.selectType = selectTypeBasic,
                                 !.previousAction = previousIsSelect],
           columns)

SelectExists ==
    [NewSelect(<< >>).b EXCEPT !.selectType = selectTypeExists]

SelectCount ==
    [NewSelect(<< >>).b EXCEPT !.selectType = selectTypeCount]

InsertInto(use, columns) ==
    LET bb == [newSqlBuilder EXCEPT !._type = sqlBuilderTypeInsert]
    IN  IF Len(columns) = 0 /\ ~mustSealed(use) THEN Panic(bb)
        ELSE LET cols == IF Len(columns) = 0 THEN allColumns(use) ELSE columns
                 r == registerUsingTable([bb EXCEPT !.insertColumns = cols], use)
             IN  Deferred(IF r.panic THEN r
                          ELSE Ok([r.b EXCEPT !.insertIntoTable = << use >>]),
                          previousIsInsertInto)

\* ---------------------------------------------------------------------------
\* part_000: Build. The SQL text is the sequence of the pieces the code writes
\* to its strings.Builder, in order; Text is their concatenation.
\* ---------------------------------------------------------------------------
RECURSIVE Flatten(_)
Flatten(ss) ==
    IF ss = << >> THEN << >> ELSE Head(ss) \o Flatten(Tail(ss))

RECURSIVE Text(_)
Text(pieces) ==
    IF pieces = << >> THEN "" ELSE Head(pieces) \o Text(Tail(pieces))

\* the pieces of a list whose items are written with sep before all but the first
Separated(items, sep) ==
    Flatten([i \in DOMAIN items |-> IF i > 1 THEN << sep >> \o items[i] ELSE items[i]])

\* strings.TrimSpace on the strings of the model: the only ones with leading
\* or trailing white space are the tokens ",\n" and " = $1 " and the column
\* name " pk1 "
TrimSpace(str) ==
    IF str = ",\n" THEN ","
    ELSE IF str = " = $1 " THEN "= $1"
    ELSE IF str = " pk1 " THEN "pk1"
    ELSE str

IntTypes == {"int8", "uint8", "int16", "uint16", "int32", "uint32", "int64",
             "uint64", "int", "uint"}

\* the type switch of a token stream; col renders a column token
TokenSupported(token) ==
    token.t \in {"string", "GenericColumnToUse", "bool"} \cup IntTypes

RenderToken(token, col(_)) ==
    IF token.t = "string" THEN TrimSpace(token.s)
    ELSE IF token.t = "GenericColumnToUse" THEN col(token.c)
    ELSE IF token.t \in IntTypes THEN ToString(token.n)
    ELSE IF token.n = 1 THEN "TRUE" ELSE "FALSE"

RenderTokens(tokens, col(_)) ==
    Flatten([i \in DOMAIN tokens |-> << " ", RenderToken(tokens[i], col) >>])

NoBuild == [panic |-> TRUE, sql |-> << >>, args |-> << >>]
Built(sql, args) == [panic |-> FALSE, sql |-> sql, args |-> args]

JoinKeyword(joinType) ==
    IF joinType = LeftJoin THEN "LEFT JOIN "
    ELSE IF joinType = RightJoin THEN "RIGHT JOIN "
    ELSE "INNER JOIN "

RenderJoin(j) ==
    << JoinKeyword(j.joinType), tableName(j.joinOnTable), " AS ",
       tableAlias(j.joinOnTable), " ON " >>
    \o Separated([k \in 1..(Len(j.joinOnColumns) \div 2) |->
                     << nameWithAlias(j.joinOnColumns[2 * k - 1]), " = ",
                        nameWithAlias(j.joinOnColumns[2 * k]) >>], " AND ")
    \o << "\n" >>

\* a guard that asks every kind of SELECT for a column
noColumnsSelectedOfAnyType(bb) ==
    Len(bb.selectColumns) = 0

\* the first guard of buildSelect: an empty column list panics unless the
\* select type is EXISTS or COUNT
noColumnsSelected(bb) ==
    /\ Len(bb.selectColumns) = 0
    /\ bb.selectType \notin {selectTypeExists, selectTypeCount}

\* a paging clause that never joins OFFSET and LIMIT on one line
offsetAndLimitEitherAlone(bb) ==
    IF bb.offset > 0 THEN << "OFFSET ", ToString(bb.offset), "\n" >>
    ELSE IF bb.limit > 0 THEN << "LIMIT ", ToString(bb.limit), "\n" >>
    ELSE << >>

\* the OFFSET & LIMIT step of buildSelect
offsetAndLimit(bb) ==
    IF bb.offset > 0 /\ bb.limit > 0
    THEN << "OFFSET ", ToString(bb.offset), " LIMIT ", ToString(bb.limit), "\n" >>
    ELSE IF bb.offset > 0
    THEN << "OFFSET ", ToString(bb.offset), "\n" >>
    ELSE IF bb.limit > 0
    THEN << "LIMIT ", ToString(bb.limit), "\n" >>
    ELSE << >>

buildSelect(bb) ==
    IF noColumnsSelected(bb) THEN NoBuild
    ELSE IF Len(bb.selectFromTable) = 0 THEN NoBuild
    ELSE IF \E i \in DOMAIN bb.whereTokens : ~TokenSupported(bb.whereTokens[i])
    THEN NoBuild
    ELSE LET stmt ==
                 << "SELECT " >>
                 \o (IF bb.selectType = selectTypeExists THEN << "1 " >>
                     ELSE IF bb.selectType = selectTypeCount THEN << "COUNT(1) " >>
                     ELSE Separated([i \in DOMAIN bb.selectColumns |->
                                        << nameWithAlias(bb.selectColumns[i]) >>], ", ")
                          \o << "\n" >>)
                 \o << "FROM " >>
                 \o Separated([i \in DOMAIN bb.selectFromTable |->
                                  << tableName(bb.selectFromTable[i]), " AS ",
                                     tableAlias(bb.selectFromTable[i]) >>], ", ")
                 \o << "\n" >>
                 \o Flatten([i \in DOMAIN bb.joinsOn |-> RenderJoin(bb.joinsOn[i])])
                 \o (IF Len(bb.whereTokens) > 0
                     THEN << "WHERE" >> \o RenderTokens(bb.whereTokens, nameWithAlias)
                          \o << "\n" >>
                     ELSE << >>)
                 \o (IF Len(bb.orders) > 0
                     THEN << "ORDER BY " >>
                          \o Separated([i \in DOMAIN bb.orders |->
                                 << nameWithAlias(bb.orders[i].column),
                                    IF bb.orders[i].asc THEN " ASC" ELSE " DESC" >>], ", ")
                          \o << "\n" >>
                     ELSE << >>)
                 \o offsetAndLimit(bb)
         IN  Built(IF bb.selectType = selectTypeExists
                   THEN << "SELECT EXISTS(" >> \o stmt \o << ")" >>
                   ELSE stmt,
                   bb.whereArgs)

\* the insert spec of a column of the fixtures, applied to a record of its type
insertSpec(col, rec) ==
    IF col.raw THEN MoneyString(rec[col.field]) ELSE rec[col.field]

\* insertSpecOfColumns(columnsName...) is usable: every name is a column of meta
insertSpecOfColumnsOk(meta, columnsName) ==
    \A i \in DOMAIN columnsName :
        HasColumn(meta, wrapWithDoubleQuoteIfSqlKeyword(columnsName[i]))

\* the insert specs of the named columns, in the order of registration
insertSpecOfColumnsRegistered(meta, columnsName, rec) ==
    LET Named(col) == \E i \in DOMAIN columnsName :
                          col.name = wrapWithDoubleQuoteIfSqlKeyword(columnsName[i])
        cols == IF Len(columnsName) = 0 THEN meta.columns
                ELSE SelectSeq(meta.columns, Named)
    IN  [i \in DOMAIN cols |-> insertSpec(cols[i], rec)]

\* the closures of insertSpecOfColumns applied to one record, in order
insertSpecOfColumns(meta, columnsName, rec) ==
    LET names == IF Len(columnsName) = 0 THEN ColumnsName(meta) ELSE columnsName
    IN  [i \in DOMAIN names |->
            insertSpec(MustGetColumnByName(meta,
                           wrapWithDoubleQuoteIfSqlKeyword(names[i])), rec)]

\* the type assertion a.(T) of an insert closure
AssertsAs(val, typeName) ==
    ~val.ptr /\ val.typeName = typeName

\* "$k", the k-th positional parameter
Placeholder(k) == "$" \o ToString(k)

\* a row offset that forgets the number of columns
RowOffsetOfIndex(i, columnsCount) == i

\* the row offset of the placeholders of the i-th record (0-based)
RowOffset(i, columnsCount) == i * columnsCount

RenderValuesRow(i, columnsCount) ==
    << "(" >>
    \o Separated([paramIdx \in 1..columnsCount |->
                     << Placeholder(RowOffset(i, columnsCount) + paramIdx) >>], ",")
    \o << ")" >>

\* a DO UPDATE WHERE column qualified by the alias, as in the other clauses
AliasDotName(c) == tableAlias(c.table) \o "." \o c.name

TableDotName(c) == tableName(c.table) \o "." \o c.name
NameOnly(c) == c.name

buildInsert(bb) ==
    IF Len(bb.insertColumns) = 0 THEN NoBuild
    ELSE IF Len(bb.insertIntoTable) = 0 THEN NoBuild
    ELSE IF Len(bb.insertValues) = 0 THEN NoBuild
    ELSE LET table == bb.insertIntoTable[1]
             meta == genericTableMeta(table)
             columnsName == [i \in DOMAIN bb.insertColumns |-> bb.insertColumns[i].name]
             columnsCount == Len(bb.insertColumns)
         IN  IF ~insertSpecOfColumnsOk(meta, columnsName) THEN NoBuild
             ELSE IF \E i \in DOMAIN bb.insertValues :
                        ~AssertsAs(bb.insertValues[i], meta.typeName)
             THEN NoBuild
             ELSE IF ~bb.insertOnConflictDoNothing
                     /\ Len(bb.insertOnConflictKeys) > 0
                     /\ \E i \in DOMAIN bb.insertOnConflictDoUpdateTokens :
                            ~TokenSupported(bb.insertOnConflictDoUpdateTokens[i])
             THEN NoBuild
             ELSE IF ~bb.insertOnConflictDoNothing
                     /\ Len(bb.insertOnConflictKeys) > 0
                     /\ \E i \in DOMAIN bb.insertOnConflictDoUpdateWhereTokens :
                            ~TokenSupported(bb.insertOnConflictDoUpdateWhereTokens[i])
             THEN NoBuild
             ELSE Built(
                 << "INSERT INTO ", tableName(table), " (" >>
                 \o Separated([i \in DOMAIN columnsName |-> << columnsName[i] >>], ", ")
                 \o << ")\nVALUES " >>
                 \o Separated([i \in DOMAIN bb.insertValues |->
                                  RenderValuesRow(i - 1, columnsCount)], ",")
                 \o (IF bb.insertOnConflictDoNothing
                     THEN << "\nON CONFLICT DO NOTHING" >>
                     ELSE IF Len(bb.insertOnConflictKeys) > 0
                     THEN << "\nON CONFLICT (" >>
                          \o Separated([i \in DOMAIN bb.insertOnConflictKeys |->
                                 << bb.insertOnConflictKeys[i].name >>], ", ")
                          \o << ") ", "DO UPDATE SET\n" >>
                          \o RenderTokens(bb.insertOnConflictDoUpdateTokens, NameOnly)
                          \o (IF Len(bb.insertOnConflictDoUpdateWhereTokens) > 0
                              THEN << "\nWHERE" >>
                                   \o RenderTokens(bb.insertOnConflictDoUpdateWhereTokens,
                                                   TableDotName)
                              ELSE << >>)
                     ELSE << >>),
                 Flatten([i \in DOMAIN bb.insertValues |->
                             insertSpecOfColumns(meta, columnsName,
                                                 bb.insertValues[i].rec)]))

\* a Build that refuses a builder on which Where was the last call
BuildUnlessAfterWhere(bb) ==
    IF bb.previousAction = previousIsSelectWhere THEN NoBuild
    ELSE IF bb._type = sqlBuilderTypeSelect THEN buildSelect(bb)
    ELSE IF bb._type = sqlBuilderTypeInsert THEN buildInsert(bb)
    ELSE NoBuild

Build(bb) ==
    IF bb._type = sqlBuilderTypeSelect THEN buildSelect(bb)
    ELSE IF bb._type = sqlBuilderTypeInsert THEN buildInsert(bb)
    ELSE NoBuild

\* ---------------------------------------------------------------------------
\* table_metadata.go: AddSqlKeyword and the registration of a table,
\* NewTableMetadata[T](name).AddColumns(columns...).Build(opt)
\* ---------------------------------------------------------------------------
\* strings.ToLower on the keywords of the model: "AMOUNT" is the only one
\* with an upper-case letter
ToLower(str) ==
    IF str = "AMOUNT" THEN "amount" ELSE str

\* sqlKeywords after AddSqlKeyword(keyword)
AddSqlKeyword(keyword) ==
    sqlKeywords \cup {ToLower(keyword)}

\* the columns of the builder after AddColumns: names trimmed, then quoted
AddColumns(columns) ==
    [i \in DOMAIN columns |->
        [columns[i] EXCEPT !.name = wrapWithDoubleQuoteIfSqlKeyword(TrimSpace(@))]]

wrapManyWithDoubleQuoteIfSqlKeyword(names) ==
    [i \in DOMAIN names |-> wrapWithDoubleQuoteIfSqlKeyword(names[i])]

\* a column name is added twice
columnAlreadyAdded(columns) ==
    \E i, j \in DOMAIN columns : i < j /\ columns[i].name = columns[j].name

IsPk(col) == col.isPk

\* the names of the columns flagged as primary key, in the order of the columns
pkColumnsName(columns) ==
    ColumnsName([columns |-> SelectSeq(columns, IsPk)])

\* a comparison that only counts the names
SameLength(a, b) ==
    Len(a) = Len(b)

\* sort.Strings(a); sort.Strings(b); reflect.DeepEqual(a, b): two sorted lists
\* are equal when every name occurs as often in the one as in the other
SortedEqual(a, b) ==
    /\ Len(a) = Len(b)
    /\ \A x \in Range(a) \cup Range(b) :
           Cardinality({i \in DOMAIN a : a[i] = x})
               = Cardinality({i \in DOMAIN b : b[i] = x})

\* a registry that takes a second registration of a type
neverRegistered(typeName) ==
    FALSE

\* the type is registered already
alreadyRegistered(typeName) ==
    typeName \in DOMAIN registeredTableTypeToName

\* the reasons Build panics for, and "" when it registers the table
NotRefused == ""
RefusedColumn == "column is already added"
RefusedKeys == "expected primary keys"
RefusedType == "table for type is already registered"

\* a Build that enters the type before it checks the columns and the keys
TableMetadataBuildStoringFirst(typeName, name, given, ExpectedPkColumns) ==
    LET columns == AddColumns(given)
        tableMetadata == [name |-> name, typeName |-> typeName, columns |-> columns]
        stored == IF alreadyRegistered(typeName) THEN registeredTableTypeToName
                  ELSE MapPut(registeredTableTypeToName, typeName, name)
        refused(reason) == [panic |-> reason, meta |-> tableMetadata,
                            typeToName |-> stored, tables |-> registeredTables]
    IN  IF alreadyRegistered(typeName) THEN refused(RefusedType)
        ELSE IF columnAlreadyAdded(columns) THEN refused(RefusedColumn)
        ELSE IF ~SortedEqual(pkColumnsName(columns),
                             wrapManyWithDoubleQuoteIfSqlKeyword(ExpectedPkColumns))
        THEN refused(RefusedKeys)
        ELSE [panic |-> NotRefused, meta |-> tableMetadata,
              typeToName |-> stored,
              tables |-> MapPut(registeredTables, name, tableMetadata)]

\* Build(opt) of the builder NewTableMetadata[T](name).AddColumns(given...):
\* the panic if any, and the two registries afterwards
TableMetadataBuild(typeName, name, given, ExpectedPkColumns) ==
    LET columns == AddColumns(given)
        tableMetadata == [name |-> name, typeName |-> typeName, columns |-> columns]
        refused(reason) == [panic |-> reason, meta |-> tableMetadata,
                            typeToName |-> registeredTableTypeToName,
                            tables |-> registeredTables]
    IN  IF columnAlreadyAdded(columns) THEN refused(RefusedColumn)
        ELSE IF ~SortedEqual(pkColumnsName(columns),
                             wrapManyWithDoubleQuoteIfSqlKeyword(ExpectedPkColumns))
        THEN refused(RefusedKeys)
        ELSE IF alreadyRegistered(typeName) THEN refused(RefusedType)
        ELSE [panic |-> NotRefused, meta |-> tableMetadata,
              typeToName |-> MapPut(registeredTableTypeToName, typeName, name),
              tables |-> MapPut(registeredTables, name, tableMetadata)]

\* ---------------------------------------------------------------------------
\* The inputs of the calls
\* ---------------------------------------------------------------------------
SelectColumnsPool ==
    {<< >>,
     << ColOf(t1, "amount") >>,
     << ColOf(t2, "amount"), ColOf(t1, "cost") >>,
     << ColOf(still1, "pk1"), ColOf(t1dup, "pk1") >>}

FromTablesPool ==
    {<< >>, << t1, t2 >>, << t2, t2asT1 >>, << unsealed1 >>}

JoinTablePool == {t2}

JoinKeyPairsPool ==
    {<< >>,
     << ColOf(t1, "pk1") >>,
     << ColOf(t1, "pk1"), ColOf(t2, "pk1") >>,
     << ColOf(t1, "pk1"), ColOf(still1, "pk1") >>,
     << ColOf(t2, "pk1"), ColOf(t1dup, "pk1") >>,
     << ColOf(t1, "pk2"), ColOf(t1, "pk1") >>}

WhereTokensPool ==
    {<< >>,
     << ColumnToken(ColOf(t1, "amount")), GoString(" = $1 ") >>,
     << GoBool(TRUE) >>,
     << GoFloat(1) >>}

AndOrTokensPool ==
    {<< >>, << GoInt(1) >>}

ArgsPool == {<< >>, << GoInt(100) >>}

OrderColumnPool == {ColOf(t1, "amount")}

\* the values handed to Offset and Limit
PagePool == {0, 1}

InsertTablePool == {t1, unsealed1}

InsertColumnsPool ==
    {<< >>,
     << ColOf(t1, "cost"), ColOf(t1, "pk1") >>,
     << ColOf(t2, "pk1"), ColOf(t1, "amount") >>,
     << ColOf(t2, "pk3") >>}

rowA == StructValue("testStruct1",
            [Pk1 |-> GoString("1"), Pk2 |-> GoInt(2), Amount |-> GoInt(3),
             Cost |-> Money("testa", 4)])
rowB == StructValue("testStruct1",
            [Pk1 |-> GoString("5"), Pk2 |-> GoInt(6), Amount |-> GoInt(7),
             Cost |-> Money("testb", 8)])
rowOther == StructValue("testStruct2",
            [Pk1 |-> GoString("9"), Pk2 |-> GoInt(10), Pk3 |-> GoInt64(11),
             Amount |-> Money("testc", 12)])

\* the lists handed to Values: every list of records of testStruct1, and
\* lists with a pointer or a record of another type
ValuesPool ==
    SeqOfUpTo({rowA, rowB}, MaxRows)
    \cup {<< PointerTo(rowA) >>, << rowA, PointerTo(rowB) >>, << rowA, rowOther >>,
          << rowOther >>}

ConflictKeysPool ==
    {<< >>,
     << ColOf(t1, "pk1"), ColOf(t1, "pk2") >>,
     << ColOf(t2, "pk1") >>}

UpdateTokensPool ==
    {<< >>,
     << GoString(FromExcluded(ColOf(t1, "cost"))) >>,
     << ColumnToken(ColOf(t1, "amount")) >>,
     << GoFloat(1) >>}

\* ---------------------------------------------------------------------------
\* use_table.go: ScannedRows, the cursor over the correlated rows.  rowIdx is
\* the 0-based index of the code; the current row is rowsOfAliasToRow[rowIdx + 1].
\* ---------------------------------------------------------------------------
\* a nil *ScannedRows
NilRows ==
    [isNil |-> TRUE, rowsOfAliasToRow |-> << >>, rowIdx |-> 0, anyNext |-> FALSE]

\* &ScannedRows{rowsOfAliasToRow: make([]map[string]*row, 0)}
NewScannedRows ==
    [NilRows EXCEPT !.isNil = FALSE]

\* &row{valueFunc: vf}
NewLogicalRow(value) ==
    [value |-> value, read |-> FALSE]

\* sr.rowsOfAliasToRow[sr.rowIdx] is in range
RowInRange(rows) ==
    rows.rowIdx < Len(rows.rowsOfAliasToRow)

\* the row of index 0, wherever the cursor is
firstRow(rows) ==
    rows.rowsOfAliasToRow[1]

currentRow(rows) ==
    rows.rowsOfAliasToRow[rows.rowIdx + 1]

\* Next without its check of the read flags
ScannedRowsNextUnchecked(rows) ==
    IF rows.anyNext /\ ~RowInRange(rows)
    THEN [sr |-> rows, panic |-> TRUE]
    ELSE [sr |-> [rows EXCEPT !.anyNext = TRUE,
                              !.rowIdx = IF rows.anyNext THEN @ + 1 ELSE 0],
          panic |-> FALSE]

\* ScannedRows.Next: the cursor as the call leaves it and whether it panicked
\* (an index out of range, or a row not fully read); it returns RowInRange
ScannedRowsNext(rows) ==
    IF rows.anyNext /\ ~RowInRange(rows)
    THEN [sr |-> rows, panic |-> TRUE]
    ELSE IF rows.anyNext
            /\ \E alias \in DOMAIN currentRow(rows) : ~currentRow(rows)[alias].read
    THEN [sr |-> rows, panic |-> TRUE]
    ELSE [sr |-> [rows EXCEPT !.anyNext = TRUE,
                              !.rowIdx = IF rows.anyNext THEN @ + 1 ELSE 0],
          panic |-> FALSE]

\* ScannedRows.GetTable: it panics before the first Next, past the last row
\* (index out of range) and on an alias the row does not hold (nil *row);
\* else it marks the row of the alias as read and returns r.valueFunc()
ScannedRowsGetTable(rows, byAlias) ==
    IF ~rows.anyNext THEN [sr |-> rows, panic |-> TRUE]
    ELSE IF ~RowInRange(rows) THEN [sr |-> rows, panic |-> TRUE]
    ELSE IF byAlias \notin DOMAIN currentRow(rows) THEN [sr |-> rows, panic |-> TRUE]
    ELSE [sr |-> [rows EXCEPT !.rowsOfAliasToRow[rows.rowIdx + 1][byAlias].read = TRUE],
          panic |-> FALSE,
          value |-> currentRow(rows)[byAlias].value]

\* the loop of ReadAllFromRows from the cursor st.sr on: what it has appended
\* to result, what its calls of Next have returned, and whether it panicked
RECURSIVE readAllLoop(_, _)
readAllLoop(alias, st) ==
    LET next == ScannedRowsNext(st.sr)
    IN  IF next.panic THEN [st EXCEPT !.panic = TRUE]
        ELSE LET after == [st EXCEPT !.sr = next.sr,
                                     !.returns = Append(@, RowInRange(next.sr))]
                 got == ScannedRowsGetTable(next.sr, alias)
             IN  IF ~RowInRange(next.sr) THEN after
                 ELSE IF got.panic THEN [after EXCEPT !.panic = TRUE]
                 ELSE readAllLoop(alias, [after EXCEPT !.sr = got.sr,
                                                       !.result = Append(@, got.value)])

\* a ReadAllFromRows with an if for its loop
ReadAllFromRowsOnce(t, scanner) ==
    LET st == [sr |-> scanner, result |-> << >>, returns |-> << >>, panic |-> FALSE]
        next == ScannedRowsNext(scanner)
        got == ScannedRowsGetTable(next.sr, tableAlias(t))
    IN  IF next.panic THEN [st EXCEPT !.panic = TRUE]
        ELSE IF ~RowInRange(next.sr)
        THEN [st EXCEPT !.sr = next.sr, !.returns = << FALSE >>]
        ELSE IF got.panic
        THEN [st EXCEPT !.sr = next.sr, !.returns = << TRUE >>, !.panic = TRUE]
        ELSE [st EXCEPT !.sr = got.sr, !.returns = << TRUE >>,
                        !.result = << got.value >>]

\* TableToUse.ReadAllFromRows: for scanner.Next() { append(t.ReadFromRow(scanner)) }
ReadAllFromRows(t, scanner) ==
    readAllLoop(tableAlias(t),
                [sr |-> scanner, result |-> << >>, returns |-> << >>, panic |-> FALSE])

\* ---------------------------------------------------------------------------
\* use_table.go: scanRows, the row correlator
\* ---------------------------------------------------------------------------
\* the keys of tablesByAlias
AliasesOf(columns) ==
    {tableAlias(columns[i].table) : i \in DOMAIN columns}

\* the last position of the select list that satisfies Test
LastPosition(columns, Test(_)) ==
    CHOOSE i \in DOMAIN columns :
        Test(columns[i]) /\ \A j \in DOMAIN columns : Test(columns[j]) => j <= i

\* tablesByAlias[alias] = column.table, the last assignment staying
tablesByAlias(columns) ==
    [alias \in AliasesOf(columns) |->
        LET OfAlias(c) == tableAlias(c.table) = alias
        IN  columns[LastPosition(columns, OfAlias)].table]

\* columnsByTableAlias[alias] = append(columnsByTableAlias[alias], column.name)
columnsByTableAlias(columns) ==
    [alias \in AliasesOf(columns) |->
        LET OfAlias(c) == tableAlias(c.table) = alias
            own == SelectSeq(columns, OfAlias)
        IN  [j \in DOMAIN own |-> own[j].name]]

\* the index of a column among the columns of its own alias
positionWithinAlias(columns) ==
    [alias \in AliasesOf(columns) |->
        [name \in Range(columnsByTableAlias(columns)[alias]) |->
            CHOOSE j \in DOMAIN columnsByTableAlias(columns)[alias] :
                columnsByTableAlias(columns)[alias][j] = name]]

\* tableAliasToColumnToIndex[alias][column.name] = i, the last assignment
\* staying; positions are 1-based here
tableAliasToColumnToIndex(columns) ==
    [alias \in AliasesOf(columns) |->
        [name \in Range(columnsByTableAlias(columns)[alias]) |->
            LET Same(c) == tableAlias(c.table) = alias /\ c.name = name
            IN  LastPosition(columns, Same)]]

\* t.NewRow(): the zero value of the record type
ZeroOf(col) ==
    IF col.raw THEN Money("", 0)
    ELSE IF col.goType = "string" THEN GoString("")
    ELSE IF col.goType = "int64" THEN GoInt64(0)
    ELSE GoInt(0)

NewRow(meta) ==
    StructValue(meta.typeName,
        [f \in {meta.columns[i].field : i \in DOMAIN meta.columns} |->
            ZeroOf(meta.columns[CHOOSE i \in DOMAIN meta.columns :
                                    meta.columns[i].field = f])])

\* the select specs of the named columns in the order of registration
selectSpecOfColumnsRegistered(meta, columnsName) ==
    LET Named(col) == \E i \in DOMAIN columnsName :
                          col.name = wrapWithDoubleQuoteIfSqlKeyword(columnsName[i])
    IN  IF Len(columnsName) = 0 THEN meta.columns ELSE SelectSeq(meta.columns, Named)

\* selectSpecOfColumns(columnsName...): the select specs, one per name, all
\* over one new row
selectSpecOfColumns(meta, columnsName) ==
    LET names == IF Len(columnsName) = 0 THEN ColumnsName(meta) ELSE columnsName
    IN  [i \in DOMAIN names |->
            MustGetColumnByName(meta, wrapWithDoubleQuoteIfSqlKeyword(names[i]))]

\* an entry of columnsForScanning: nil, or spec.ToQueryArg() of the j-th
\* select spec of an alias
NilDest == [isNil |-> TRUE, alias |-> "", j |-> 0]
Dest(alias, j) == [isNil |-> FALSE, alias |-> alias, j |-> j]

\* columnsForScanning[tableAliasToColumnToIndex[tableAlias][column]] =
\* spec.ToQueryArg(), for each alias and each of its columns in order
columnsForScanning(columns) ==
    LET own == columnsByTableAlias(columns)
        index == tableAliasToColumnToIndex(columns)
        Hits(i) == {d \in {Dest(alias, j) : alias \in AliasesOf(columns),
                                             j \in 1..Len(columns)} :
                       /\ d.j \in DOMAIN own[d.alias]
                       /\ index[d.alias][own[d.alias][d.j]] = i}
    IN  [i \in DOMAIN columns |->
            IF Hits(i) = {} THEN NilDest
            ELSE CHOOSE d \in Hits(i) : \A e \in Hits(i) : e.j <= d.j]

\* rows.Scan(columnsForScanning...) fails when the row source does, and on a
\* destination that is nil
ScanFails(physical, dests) ==
    \/ physical.scanErr
    \/ \E i \in DOMAIN dests : dests[i].isNil

\* the cell that Scan stored through the j-th select spec of an alias: the
\* one at the position its destination took
ScannedInto(dests, physical, alias, j) ==
    physical.cells[CHOOSE i \in DOMAIN dests : dests[i] = Dest(alias, j)]

IsScannedInto(dests, alias, j) ==
    \E i \in DOMAIN dests : dests[i] = Dest(alias, j)

\* the deferred transforms of a row in the order they were registered: per
\* table in the order the map iteration took, per column in order
RECURSIVE optionalTransformFunctions(_, _)
optionalTransformFunctions(columns, order) ==
    IF order = << >> THEN << >>
    ELSE LET alias == Head(order)
             specs == selectSpecOfColumns(genericTableMeta(tablesByAlias(columns)[alias]),
                                          columnsByTableAlias(columns)[alias])
             Raw(t) == specs[t.j].raw
         IN  SelectSeq([j \in DOMAIN specs |-> [alias |-> alias, j |-> j]], Raw)
             \o optionalTransformFunctions(columns, Tail(order))

\* the transforms run whatever Scan returned
transformsToRunAlways(scanFailed, transforms) ==
    transforms

\* the transforms that run: none unless Scan returned nil
transformsToRun(scanFailed, transforms) ==
    IF scanFailed THEN << >> ELSE transforms

\* a transform fails when parseMoney refuses the raw string scanned for it
TransformFails(dests, physical, t) ==
    /\ IsScannedInto(dests, t.alias, t.j)
    /\ parseMoneyFails(ScannedInto(dests, physical, t.alias, t.j))

\* the transforms run up to and with the first one that fails
RECURSIVE RunTransforms(_, _, _)
RunTransforms(dests, physical, transforms) ==
    IF transforms = << >> THEN << >>
    ELSE IF TransformFails(dests, physical, Head(transforms)) THEN << Head(transforms) >>
    ELSE << Head(transforms) >> \o RunTransforms(dests, physical, Tail(transforms))

\* the record behind valueFunc of an alias once the row is scanned and its
\* transforms have run
MaterializedRow(columns, dests, physical, alias) ==
    LET meta == genericTableMeta(tablesByAlias(columns)[alias])
        specs == selectSpecOfColumns(meta, columnsByTableAlias(columns)[alias])
        zero == NewRow(meta)
        Sets(f) == {j \in DOMAIN specs :
                       specs[j].field = f /\ IsScannedInto(dests, alias, j)}
    IN  [zero EXCEPT !.rec =
            [f \in DOMAIN zero.rec |->
                IF Sets(f) = {} THEN zero.rec[f]
                ELSE LET j == CHOOSE j \in Sets(f) : TRUE
                         cell == ScannedInto(dests, physical, alias, j)
                     IN  IF specs[j].raw THEN parseMoney(cell) ELSE cell]]

\* one pass of the loop over rows.Next(): the row function of scanRows on one
\* physical row, with the tables taken in the given order
scanRow(columns, physical, order) ==
    LET dests == columnsForScanning(columns)
        scanFailed == ScanFails(physical, dests)
        ran == RunTransforms(dests, physical,
                   transformsToRun(scanFailed,
                                   optionalTransformFunctions(columns, order)))
        failed == scanFailed
                  \/ \E i \in DOMAIN ran : TransformFails(dests, physical, ran[i])
    IN  [err |-> failed,
         ran |-> ran,
         aliasToRow |->
             IF failed THEN EmptyMap
             ELSE [alias \in AliasesOf(columns) |->
                      NewLogicalRow(MaterializedRow(columns, dests, physical, alias))]]

\* the orders a map iteration can take over a set of keys
Orders(S) ==
    {o \in [1..Cardinality(S) -> S] : Range(o) = S}

\* ---------------------------------------------------------------------------
\* The inputs of scanRows
\* ---------------------------------------------------------------------------
ScanColumnsPool ==
    {<< ColOf(t1, "amount"), ColOf(t2, "amount"), ColOf(t1, "cost"), ColOf(t2, "pk3") >>,
     << ColOf(t2, "pk3"), ColOf(t1, "cost"), ColOf(t2, "pk1") >>,
     << ColOf(still1, "pk2"), ColOf(t1, "pk2") >>,
     << ColOf(t1, "amount"), ColOf(t1, "amount") >>,
     << ColOf(t1, "amount") >>,
     << >>}

\* the values a row source can hold at a position of row k: one that tells
\* the position and the row, and for a raw money string also the empty string
\* and a number without a currency
CellPool(col, position, k) ==
    IF col.raw
    THEN {DigitsThen(10 * k + position, "usd"), GoString(""), DigitsThen(10 * k + position, "")}
    ELSE IF col.goType = "string" THEN {GoString(ToString(10 * k + position))}
    ELSE IF col.goType = "int64" THEN {GoInt64(10 * k + position)}
    ELSE {GoInt(10 * k + position)}

RECURSIVE CellsPool(_, _, _)
CellsPool(columns, k, upTo) ==
    IF upTo = 0 THEN {<< >>}
    ELSE LET c == columns[upTo]
             col == MustGetColumnByName(genericTableMeta(c.table), c.name)
         IN  {Append(cells, cell) : cells \in CellsPool(columns, k, upTo - 1),
                                    cell \in CellPool(col, upTo, k)}

PhysicalRowPool(columns, k) ==
    {[cells |-> cells, scanErr |-> scanErr] :
        cells \in CellsPool(columns, k, Len(columns)), scanErr \in BOOLEAN}

RECURSIVE PhysicalRowsPool(_, _)
PhysicalRowsPool(columns, n) ==
    IF n = 0 THEN {<< >>}
    ELSE {Append(rows, row) : rows \in PhysicalRowsPool(columns, n - 1),
                              row \in PhysicalRowPool(columns, n)}

GetTableAliasPool == {"t1", "t2", "still1", "t3"}

\* the descriptors ReadAllFromRows is called on
ReadAllTablePool == {t1, t2, still1}

\* ---------------------------------------------------------------------------
\* State
\* ---------------------------------------------------------------------------
VARIABLES
    b,             \* the builder of the call chain
    lastCall,      \* the call made last on the builder or on the cursor
    lastResult,    \* "ok" if it returned; if it panicked, "rejected" when it
                   \* left the builder as it was and "panic" otherwise
    built,         \* what the last call returned, if it was Build
    queryErr,      \* scanRows is handed an error of the query
    physicalRows,  \* the rows of the row source handed to scanRows
    pending,       \* the rows of the row source that rows.Next() has yet to give
    scanResult,    \* "none" before scanRows is called, "running" in its loop,
                   \* then "ok", "error" or "panic"
    transformsRun, \* the deferred transforms run so far: physical row, alias, spec
    sr,            \* the ScannedRows that scanRows fills and returns
    gotten,        \* the aliases GetTable returned for since the last Next
    nextReturns,   \* what the calls of Next that returned have returned, in order
    roundTrip,     \* a record on its way through the insert specs and back
                   \* through the select specs of a column list
    mutexRegisterTable, \* the goroutine that holds the mutex, or Unlocked
    registering    \* the goroutines that call Build of a TableMetadataBuilder:
                   \* where each is, its arguments and what it ended with

scanVars == << queryErr, physicalRows, pending, scanResult, transformsRun, sr, gotten,
              nextReturns >>

vars == << b, lastCall, lastResult, built, queryErr, physicalRows, pending,
           scanResult, transformsRun, sr, gotten, nextReturns, sqlKeywords,
           registeredTableTypeToName, registeredTables, declared, roundTrip,
           mutexRegisterTable, registering >>

conVars == << mutexRegisterTable, registering >>

Outcome(before, r) ==
    IF ~r.panic THEN "ok" ELSE IF r.b = before THEN "rejected" ELSE "panic"

\* the tokens the caller handed over: And and Or add the connective themselves
IsHanded(token) == token \notin {GoString("AND"), GoString("OR")}

HandedTokens(tokens) == SelectSeq(tokens, IsHanded)

\* the builder stays within the bounds of the model
Fits(bb) ==
    /\ Len(bb.selectColumns) + Len(bb.joinsOn) + Len(HandedTokens(bb.whereTokens))
           + Len(bb.whereArgs) + Len(bb.orders) <= MaxSize
    /\ Len(bb.insertOnConflictDoUpdateTokens) <= MaxTokens
    /\ Len(bb.insertOnConflictDoUpdateWhereTokens) <= MaxTokens

\* The caller goes on with the builder after a call that returned, and after
\* one whose panic it recovered.  A panic that left the builder as it was
\* hands the caller the builder of the state before the call, where every
\* call is taken already: the chain is not followed further from there.
Resumes ==
    lastResult # "rejected"

\* a fluent call named name with outcome r
Call(name, r) ==
    /\ Fits(r.b)
    /\ b' = r.b
    /\ lastCall' = name
    /\ lastResult' = Outcome(b, r)
    /\ built' = NoBuild
    /\ UNCHANGED << scanVars, regVars, roundTrip, conVars >>

\* the builders the constructors return
SelectBuilders ==
    {NewSelect(columns).b : columns \in
        {cs \in SelectColumnsPool : ~NewSelect(cs).panic}}
    \cup {SelectExists, SelectCount}

InsertBuilders ==
    {InsertInto(uc[1], uc[2]).b : uc \in
        {x \in InsertTablePool \X InsertColumnsPool : ~InsertInto(x[1], x[2]).panic}}

\* no record is on its way through the specs
NoRoundTrip ==
    roundTrip = [stage |-> "none"]

\* sync.Mutex{}: nobody holds it
Unlocked == 0

\* no goroutine is in Build of a TableMetadataBuilder
NoRegistering ==
    /\ mutexRegisterTable = Unlocked
    /\ registering = << >>

InitBuilder(builders) ==
    /\ b \in builders
    /\ lastCall = "new"
    /\ lastResult = "ok"
    /\ built = NoBuild
    /\ NoRoundTrip
    /\ NoRegistering

NoScan ==
    /\ queryErr = FALSE
    /\ physicalRows = << >>
    /\ pending = << >>
    /\ scanResult = "none"
    /\ transformsRun = << >>
    /\ sr = NilRows
    /\ gotten = {}
    /\ nextReturns = << >>

\* the package state of the programs that build statements: the predefined
\* keywords and the two fixtures, registered with the names they are given
TestRegistry ==
    /\ sqlKeywords = predefinedList
    /\ registeredTableTypeToName = testTableTypeToName
    /\ registeredTables = testTables
    /\ declared = [t \in {"testStruct1", "testStruct2"} |->
                      [given |-> ColumnsName(testTables[testTableTypeToName[t]]),
                       expected |-> pkColumnsName(
                                        testTables[testTableTypeToName[t]].columns),
                       meta |-> testTables[testTableTypeToName[t]]]]

Init == TestRegistry /\ InitBuilder(SelectBuilders) /\ NoScan

InitInsert == TestRegistry /\ InitBuilder(InsertBuilders) /\ NoScan

\* a SELECT builder and the result of its query, before scanRows is called
InitScan ==
    /\ TestRegistry
    /\ InitBuilder({NewSelect(columns).b : columns \in ScanColumnsPool})
    /\ queryErr \in BOOLEAN
    /\ physicalRows \in UNION {PhysicalRowsPool(b.selectColumns, n) : n \in 0..MaxPhysical}
    /\ pending = physicalRows
    /\ scanResult = "none"
    /\ transformsRun = << >>
    /\ sr = NilRows
    /\ gotten = {}
    /\ nextReturns = << >>

\* ---------------------------------------------------------------------------
\* Actions: one per call of the fluent API
\* ---------------------------------------------------------------------------
CallSelect ==
    /\ Resumes
    /\ \E columns \in SelectColumnsPool :
           Call("Select", Select(b, columns))

CallFrom ==
    /\ Resumes
    /\ \E tables \in FromTablesPool :
           Call("From", From(b, tables))

CallJoin ==
    /\ Resumes
    /\ \E joinType \in {InnerJoin, LeftJoin, RightJoin}, joinOnTable \in JoinTablePool,
          onKeyPairs \in JoinKeyPairsPool :
           Call("Join", Join(b, joinType, joinOnTable, onKeyPairs))

CallWhere ==
    /\ Resumes
    /\ \E whereTokens \in WhereTokensPool \cup AndOrTokensPool :
           Call("Where", Where(b, whereTokens))

CallAnd ==
    /\ Resumes
    /\ \E whereTokens \in AndOrTokensPool :
           Call("And", And(b, whereTokens))

CallOr ==
    /\ Resumes
    /\ \E whereTokens \in AndOrTokensPool :
           Call("Or", Or(b, whereTokens))

CallArgs ==
    /\ Resumes
    /\ \E whereArgs \in ArgsPool :
           Call("Args", Args(b, whereArgs))

CallOrderBy ==
    /\ Resumes
    /\ \E column \in OrderColumnPool, asc \in {ASC, DESC} :
           Call("OrderBy", OrderBy(b, column, asc))

CallThenBy ==
    /\ Resumes
    /\ \E column \in OrderColumnPool, asc \in {ASC, DESC} :
           Call("ThenBy", ThenBy(b, column, asc))

CallOffset ==
    /\ Resumes
    /\ \E offset \in PagePool :
           Call("Offset", Offset(b, offset))

CallLimit ==
    /\ Resumes
    /\ \E limit \in PagePool :
           Call("Limit", Limit(b, limit))

CallValues ==
    /\ Resumes
    /\ \E values \in ValuesPool :
           Call("Values", Values(b, values))

CallOnConflict ==
    /\ Resumes
    /\ \E columns \in ConflictKeysPool :
           Call("OnConflict", OnConflict(b, columns))

CallDoUpdate ==
    /\ Resumes
    /\ \E tokens \in UpdateTokensPool :
           Call("DoUpdate", DoUpdate(b, tokens))

CallDoUpdateExceptPrimaryKeys ==
    /\ Resumes
    /\ Call("DoUpdateExceptPrimaryKeys", DoUpdateExceptPrimaryKeys(b))

CallDoNothing ==
    /\ Resumes
    /\ Call("DoNothing", DoNothing(b))

CallBuild ==
    /\ Resumes
    /\ b' = b
    /\ lastCall' = "Build"
    /\ lastResult' = Outcome(b, [b |-> b, panic |-> Build(b).panic])
    /\ built' = Build(b)
    /\ UNCHANGED << scanVars, regVars, roundTrip, conVars >>

Next ==
    \/ CallSelect
    \/ CallFrom
    \/ CallJoin
    \/ CallWhere
    \/ CallAnd
    \/ CallOr
    \/ CallArgs
    \/ CallOrderBy
    \/ CallThenBy
    \/ CallOffset
    \/ CallLimit
    \/ CallValues
    \/ CallOnConflict
    \/ CallDoUpdate
    \/ CallDoUpdateExceptPrimaryKeys
    \/ CallDoNothing
    \/ CallBuild

Spec == Init /\ [][Next]_vars

SpecInsert == InitInsert /\ [][Next]_vars

\* ---------------------------------------------------------------------------
\* The SELECT calls that take descriptors, with descriptors that were and
\* were not sealed handed to Join
\* ---------------------------------------------------------------------------
JoinDescriptorPool == {t2, still1, unsealed1}

CallJoinDescriptor ==
    /\ Resumes
    /\ \E joinType \in {InnerJoin, LeftJoin}, joinOnTable \in JoinDescriptorPool,
          onKeyPairs \in JoinKeyPairsPool :
           Call("Join", Join(b, joinType, joinOnTable, onKeyPairs))

NextDescriptors ==
    \/ CallSelect
    \/ CallFrom
    \/ CallJoinDescriptor
    \/ CallBuild

SpecDescriptors == Init /\ [][NextDescriptors]_vars

\* the call chains of every constructor, SELECT and INSERT
InitBuilders ==
    TestRegistry /\ InitBuilder(SelectBuilders \cup InsertBuilders) /\ NoScan

SpecBuilders == InitBuilders /\ [][Next]_vars

\* ---------------------------------------------------------------------------
\* The registry: a program that extends the keywords, registers record types
\* and looks them up
\* ---------------------------------------------------------------------------
TypePool == {"testStruct1", "testStruct2", "testStruct3"}

TableNamePool == {"table1", "table2"}

KeywordPool == {"AMOUNT"}

\* NewColumnMetadata[T](name), with PrimaryKey() or not
NewColumnMetadata(name, isPk) == Col(name, isPk, "Field", "int", FALSE)

\* the column lists handed to AddColumns: a key and a column, two keys
\* of which one is a predefined keyword, a name added twice (once with
\* spaces around it), and a table without a key
RegisterColumnsPool ==
    {<< NewColumnMetadata("pk1", TRUE), NewColumnMetadata("amount", FALSE) >>,
     << NewColumnMetadata("name", TRUE), NewColumnMetadata("pk1", TRUE) >>,
     << NewColumnMetadata("pk1", TRUE), NewColumnMetadata(" pk1 ", FALSE) >>,
     << NewColumnMetadata("amount", FALSE), NewColumnMetadata("amount", TRUE) >>,
     << NewColumnMetadata("amount", FALSE) >>}

\* the lists handed as ExpectedPkColumns
ExpectedPkPool ==
    {<< >>, << "pk1" >>, << "pk1", "name" >>, << "name", "pk1" >>,
     << "pk1", "pk1" >>, << "amount" >>}

RegisterPool == TypePool \X TableNamePool \X RegisterColumnsPool \X ExpectedPkPool

\* the registration of the model with the arguments x
Registration(x) == TableMetadataBuild(x[1], x[2], x[3], x[4])

InitRegistry ==
    /\ sqlKeywords = predefinedList
    /\ registeredTableTypeToName = EmptyMap
    /\ registeredTables = EmptyMap
    /\ declared = EmptyMap
    /\ InitBuilder({newSqlBuilder})
    /\ NoScan

\* The program goes on after a call that changed the package state.  A
\* registration that was refused and a lookup left it as it was, where every
\* call is taken already: the run is not followed further from there.
Proceeds ==
    /\ lastCall = "Register" => lastResult = "ok"
    /\ lastCall # "GetTableMetadata"

CallAddSqlKeyword ==
    /\ Proceeds
    /\ \E keyword \in KeywordPool : sqlKeywords' = AddSqlKeyword(keyword)
    /\ lastCall' = "AddSqlKeyword"
    /\ lastResult' = "ok"
    /\ UNCHANGED << b, built, scanVars, registeredTableTypeToName, registeredTables,
                    declared, roundTrip, conVars >>

CallRegister ==
    /\ Proceeds
    /\ \E x \in RegisterPool :
           LET r == Registration(x)
           IN  /\ r.panic = NotRefused
                      => Cardinality(DOMAIN registeredTableTypeToName) < MaxRegistered
               /\ registeredTableTypeToName' = r.typeToName
               /\ registeredTables' = r.tables
               /\ declared' = IF r.panic = NotRefused
                              THEN MapPut(declared, x[1],
                                          [given |-> ColumnsName([columns |-> x[3]]),
                                           expected |-> x[4], meta |-> r.meta])
                              ELSE declared
               /\ lastResult' = IF r.panic = NotRefused THEN "ok" ELSE r.panic
    /\ lastCall' = "Register"
    /\ UNCHANGED << b, built, scanVars, sqlKeywords, roundTrip, conVars >>

CallGetTableMetadata ==
    /\ Proceeds
    /\ \E typeName \in TypePool :
           lastResult' = IF GetTableMetadataPanics(typeName) THEN "panic" ELSE "ok"
    /\ lastCall' = "GetTableMetadata"
    /\ UNCHANGED << b, built, scanVars, regVars, roundTrip, conVars >>

NextRegistry ==
    \/ CallAddSqlKeyword
    \/ CallRegister
    \/ CallGetTableMetadata

SpecRegistry == InitRegistry /\ [][NextRegistry]_vars

\* ---------------------------------------------------------------------------
\* Two goroutines in Build of a TableMetadataBuilder (table_metadata.go)
\* ---------------------------------------------------------------------------
Goroutines == {1, 2}

\* what the goroutines declare: every type under every name, with a valid
\* column list and with one that adds a name twice
ConcurrentPool ==
    {x \in RegisterPool :
        /\ x[3] \in {<< NewColumnMetadata("pk1", TRUE), NewColumnMetadata("amount", FALSE) >>,
                     << NewColumnMetadata("pk1", TRUE), NewColumnMetadata(" pk1 ", FALSE) >>}
        /\ x[4] = << "pk1" >>}

InitConcurrent ==
    /\ sqlKeywords = predefinedList
    /\ registeredTableTypeToName = EmptyMap
    /\ registeredTables = EmptyMap
    /\ declared = EmptyMap
    /\ b = newSqlBuilder
    /\ lastCall = "new"
    /\ lastResult = "ok"
    /\ built = NoBuild
    /\ NoRoundTrip
    /\ NoScan
    /\ mutexRegisterTable = Unlocked
    /\ registering \in [Goroutines -> {[pc |-> "Lock", x |-> x, panic |-> NotRefused] :
                                          x \in ConcurrentPool}]

\* a lock that is given to whoever asks
LockAlways(mutex) ==
    TRUE

\* mutexRegisterTable.Lock() returns once nobody holds the mutex
CanLock(mutex) ==
    mutex = Unlocked

\* mutexRegisterTable.Lock()
BuildLock(p) ==
    /\ registering[p].pc = "Lock"
    /\ CanLock(mutexRegisterTable)
    /\ mutexRegisterTable' = p
    /\ registering' = [registering EXCEPT ![p].pc = "checks"]
    /\ UNCHANGED << b, lastCall, lastResult, built, scanVars, regVars, roundTrip >>

\* the checks of the columns, of the keys and of the registry: a panic goes to
\* the deferred Unlock
BuildChecks(p) ==
    /\ registering[p].pc = "checks"
    /\ LET r == Registration(registering[p].x)
       IN  registering' = [registering EXCEPT
               ![p].panic = r.panic,
               ![p].pc = IF r.panic = NotRefused THEN "store name" ELSE "Unlock"]
    /\ UNCHANGED << b, lastCall, lastResult, built, scanVars, regVars, roundTrip,
                    mutexRegisterTable >>

\* registeredTableTypeToName[typeName] = b.name
BuildStoreName(p) ==
    /\ registering[p].pc = "store name"
    /\ registeredTableTypeToName' =
           MapPut(registeredTableTypeToName, registering[p].x[1], registering[p].x[2])
    /\ registering' = [registering EXCEPT ![p].pc = "store table"]
    /\ UNCHANGED << b, lastCall, lastResult, built, scanVars, sqlKeywords,
                    registeredTables, declared, roundTrip, mutexRegisterTable >>

\* registeredTables[b.name] = tableMetadata
BuildStoreTable(p) ==
    /\ registering[p].pc = "store table"
    /\ LET x == registering[p].x
       IN  /\ registeredTables' = MapPut(registeredTables, x[2], Registration(x).meta)
           /\ declared' = MapPut(declared, x[1],
                                 [given |-> ColumnsName([columns |-> x[3]]),
                                  expected |-> x[4], meta |-> Registration(x).meta])
    /\ registering' = [registering EXCEPT ![p].pc = "Unlock"]
    /\ UNCHANGED << b, lastCall, lastResult, built, scanVars, sqlKeywords,
                    registeredTableTypeToName, roundTrip, mutexRegisterTable >>

\* the deferred mutexRegisterTable.Unlock(), then Build returns or panics on
BuildUnlock(p) ==
    /\ registering[p].pc = "Unlock"
    /\ mutexRegisterTable' = Unlocked
    /\ registering' = [registering EXCEPT ![p].pc = "done"]
    /\ UNCHANGED << b, lastCall, lastResult, built, scanVars, regVars, roundTrip >>

NextConcurrent ==
    \/ \E p \in Goroutines : BuildLock(p)
    \/ \E p \in Goroutines : BuildChecks(p)
    \/ \E p \in Goroutines : BuildStoreName(p)
    \/ \E p \in Goroutines : BuildStoreTable(p)
    \/ \E p \in Goroutines : BuildUnlock(p)

SpecConcurrent == InitConcurrent /\ [][NextConcurrent]_vars

\* ---------------------------------------------------------------------------
\* A record through insertSpecOfColumns and back through selectSpecOfColumns
\* (table_metadata.go, with the specs of the fixtures of part_002)
\* ---------------------------------------------------------------------------
MoneyPool ==
    {Money("usd", 5), Money("", 5), Money("", 0), Money("2x", 1), Money("us d", 3)}

RecordPool ==
    {StructValue("testStruct1",
         [Pk1 |-> GoString(pk1), Pk2 |-> GoInt(pk2), Amount |-> GoInt(7), Cost |-> cost]) :
         pk1 \in {"", "k"}, pk2 \in {0, 2}, cost \in MoneyPool}
    \cup {StructValue("testStruct2",
              [Pk1 |-> GoString("k"), Pk2 |-> GoInt(2), Pk3 |-> GoInt64(3),
               Amount |-> amount]) : amount \in MoneyPool}

ColumnsNamePool(typeName) ==
    IF typeName = "testStruct1"
    THEN {<< >>, << "cost", "pk1" >>, << "amount", "amount" >>, << "cost", "cost" >>,
          << "pk2" >>}
    ELSE {<< >>, << "amount", "pk3" >>}

\* the row once the values are stored through ToQueryArg() of the specs, in
\* order: a spec without a transform points at its field of the row, a spec
\* with one at a string of its own
StoredThrough(row, specs, values) ==
    LET Sets(f) == {i \in DOMAIN specs : specs[i].field = f /\ ~specs[i].raw}
    IN  [row EXCEPT !.rec =
            [f \in DOMAIN row.rec |->
                IF Sets(f) = {} THEN row.rec[f]
                ELSE values[CHOOSE i \in Sets(f) : \A j \in Sets(f) : j <= i]]]

\* the transforms of the specs from the i-th on, run in order until one
\* fails: each parses the string stored for it into its field of the row
RECURSIVE Transformed(_, _, _, _)
Transformed(row, specs, values, i) ==
    IF i > Len(specs) THEN [row |-> row, err |-> FALSE]
    ELSE IF ~specs[i].raw THEN Transformed(row, specs, values, i + 1)
    ELSE LET set == [row EXCEPT !.rec[specs[i].field] = parseMoney(values[i])]
         IN  IF parseMoneyFails(values[i]) THEN [row |-> set, err |-> TRUE]
             ELSE Transformed(set, specs, values, i + 1)

InitRoundTrip ==
    /\ TestRegistry
    /\ b = newSqlBuilder
    /\ lastCall = "new"
    /\ lastResult = "ok"
    /\ built = NoBuild
    /\ NoScan
    /\ NoRegistering
    /\ \E record \in RecordPool :
           \E columnsName \in ColumnsNamePool(record.typeName) :
               roundTrip = [stage |-> "record", record |-> record,
                            columnsName |-> columnsName, values |-> << >>,
                            row |-> record, err |-> FALSE]

roundTripMeta ==
    registeredTables[registeredTableTypeToName[roundTrip.record.typeName]]

\* the insert specs of the column list give the values of the record
ApplyInsertSpecs ==
    /\ roundTrip.stage = "record"
    /\ roundTrip' = [roundTrip EXCEPT
           !.stage = "values",
           !.values = insertSpecOfColumns(roundTripMeta, roundTrip.columnsName,
                                          roundTrip.record.rec)]
    /\ UNCHANGED << b, lastCall, lastResult, built, scanVars, regVars, conVars >>

\* the select specs of the column list are bound to a new row and the values
\* are stored through them
StoreThroughSelectSpecs ==
    /\ roundTrip.stage = "values"
    /\ roundTrip' = [roundTrip EXCEPT
           !.stage = "stored",
           !.row = StoredThrough(NewRow(roundTripMeta),
                                 selectSpecOfColumns(roundTripMeta, roundTrip.columnsName),
                                 roundTrip.values)]
    /\ UNCHANGED << b, lastCall, lastResult, built, scanVars, regVars, conVars >>

\* the transforms of the select specs run
RunOptionalTransforms ==
    /\ roundTrip.stage = "stored"
    /\ LET r == Transformed(roundTrip.row,
                            selectSpecOfColumns(roundTripMeta, roundTrip.columnsName),
                            roundTrip.values, 1)
       IN  roundTrip' = [roundTrip EXCEPT !.stage = "done", !.row = r.row,
                                          !.err = r.err]
    /\ UNCHANGED << b, lastCall, lastResult, built, scanVars, regVars, conVars >>

NextRoundTrip ==
    \/ ApplyInsertSpecs
    \/ StoreThroughSelectSpecs
    \/ RunOptionalTransforms

SpecRoundTrip == InitRoundTrip /\ [][NextRoundTrip]_vars

\* ---------------------------------------------------------------------------
\* Actions of the row correlator and of the cursor it returns
\* ---------------------------------------------------------------------------
\* scanRows up to its loop: the error of the query is returned as it is
ScanRowsBegin ==
    /\ scanResult = "none"
    /\ scanResult' = IF queryErr THEN "error"
                     ELSE IF ~mustTypeSelect(b) THEN "panic"
                     ELSE "running"
    /\ sr' = IF queryErr \/ ~mustTypeSelect(b) THEN NilRows ELSE NewScannedRows
    /\ lastCall' = "scanRows"
    /\ UNCHANGED << b, lastResult, built, queryErr, physicalRows, pending,
                    transformsRun, gotten, nextReturns >>
    /\ UNCHANGED << regVars, roundTrip, conVars >>

\* one pass of the loop: rows.Next() gave a row
ScanRowsRow ==
    /\ scanResult = "running"
    /\ pending # << >>
    /\ \E order \in Orders(AliasesOf(b.selectColumns)) :
           LET r == scanRow(b.selectColumns, Head(pending), order)
               k == Len(physicalRows) - Len(pending) + 1
           IN  /\ transformsRun' = transformsRun
                      \o [i \in DOMAIN r.ran |->
                             [row |-> k, alias |-> r.ran[i].alias, j |-> r.ran[i].j]]
               /\ scanResult' = IF r.err THEN "error" ELSE "running"
               /\ sr' = IF r.err THEN NilRows
                        ELSE [sr EXCEPT !.rowsOfAliasToRow = Append(@, r.aliasToRow)]
    /\ pending' = Tail(pending)
    /\ UNCHANGED << b, lastCall, lastResult, built, queryErr, physicalRows, gotten,
                    nextReturns >>
    /\ UNCHANGED << regVars, roundTrip, conVars >>

\* rows.Next() gave false: scanRows returns the ScannedRows
ScanRowsReturn ==
    /\ scanResult = "running"
    /\ pending = << >>
    /\ scanResult' = "ok"
    /\ UNCHANGED << b, lastCall, lastResult, built, queryErr, physicalRows, pending,
                    transformsRun, sr, gotten, nextReturns >>
    /\ UNCHANGED << regVars, roundTrip, conVars >>

\* the caller of scanRows calls Next on the ScannedRows it got
RowsNext ==
    /\ scanResult = "ok"
    /\ LET r == ScannedRowsNext(sr)
       IN  /\ sr' = r.sr
           /\ lastResult' = IF r.panic THEN "panic" ELSE "ok"
           /\ gotten' = IF r.panic THEN gotten ELSE {}
           /\ nextReturns' = IF r.panic THEN nextReturns
                              ELSE Append(nextReturns, RowInRange(r.sr))
    /\ lastCall' = "Next"
    /\ UNCHANGED << b, built, queryErr, physicalRows, pending, scanResult, transformsRun >>
    /\ UNCHANGED << regVars, roundTrip, conVars >>

\* the caller of scanRows calls GetTable on the ScannedRows it got
RowsGetTable ==
    /\ scanResult = "ok"
    /\ \E byAlias \in GetTableAliasPool :
           LET r == ScannedRowsGetTable(sr, byAlias)
           IN  /\ sr' = r.sr
               /\ lastResult' = IF r.panic THEN "panic" ELSE "ok"
               /\ gotten' = IF r.panic THEN gotten ELSE gotten \cup {byAlias}
    /\ lastCall' = "GetTable"
    /\ UNCHANGED << b, built, queryErr, physicalRows, pending, scanResult, transformsRun,
                    nextReturns >>
    /\ UNCHANGED << regVars, roundTrip, conVars >>

\* the caller of scanRows calls ReadAllFromRows of a descriptor on the
\* ScannedRows it got
RowsReadAll ==
    /\ scanResult = "ok"
    /\ \E t \in ReadAllTablePool :
           LET r == ReadAllFromRows(t, sr)
           IN  /\ sr' = r.sr
               /\ lastResult' = IF r.panic THEN "panic" ELSE "ok"
               /\ nextReturns' = nextReturns \o r.returns
               /\ gotten' = IF r.returns = << >> THEN gotten
                             ELSE IF r.panic /\ Len(r.result) = Len(r.returns)
                             THEN {tableAlias(t)}
                             ELSE {}
    /\ lastCall' = "ReadAllFromRows"
    /\ UNCHANGED << b, built, queryErr, physicalRows, pending, scanResult, transformsRun >>
    /\ UNCHANGED << regVars, roundTrip, conVars >>

NextScan ==
    \/ ScanRowsBegin
    \/ ScanRowsRow
    \/ ScanRowsReturn
    \/ RowsNext
    \/ RowsGetTable
    \/ RowsReadAll

SpecScan == InitScan /\ [][NextScan]_vars

\* ---------------------------------------------------------------------------
\* Properties
\* ---------------------------------------------------------------------------
\* every call the actions can make on a builder: its name, whether its
\* arguments are valid for the builder (sealed tables whose aliases clash
\* neither with the builder nor with each other, well-formed join pairs, a
\* token for AND / OR) and whether it panics
Registrable(bb, tables) ==
    /\ \A i \in DOMAIN tables :
           /\ tables[i].sealed
           /\ tables[i].alias \in DOMAIN bb.aliasToTableUniqueId
                  => bb.aliasToTableUniqueId[tables[i].alias] = tables[i].uid
    /\ \A i, j \in DOMAIN tables :
           tables[i].alias = tables[j].alias => tables[i].uid = tables[j].uid

ValidJoin(bb, joinOnTable, onKeyPairs) ==
    /\ Len(onKeyPairs) % 2 = 0
    /\ \A i \in DOMAIN onKeyPairs :
           i % 2 = 1 =>
               /\ onKeyPairs[i].table.name # onKeyPairs[i + 1].table.name
               /\ joinOnTable.name \in {onKeyPairs[i].table.name,
                                        onKeyPairs[i + 1].table.name}
    /\ Registrable(bb, TablesOf(onKeyPairs))

Attempt(call, valid, r) ==
    [call |-> call, valid |-> valid, panic |-> r.panic]

Attempts(bb) ==
    {Attempt("Select", Registrable(bb, TablesOf(columns)), Select(bb, columns)) :
        columns \in SelectColumnsPool}
    \cup {Attempt("From", Registrable(bb, tables), From(bb, tables)) :
        tables \in FromTablesPool}
    \cup {Attempt("Join", ValidJoin(bb, x[2], x[3]), Join(bb, x[1], x[2], x[3])) :
        x \in {InnerJoin, LeftJoin, RightJoin} \X JoinTablePool \X JoinKeyPairsPool}
    \cup {Attempt("Where", TRUE, Where(bb, whereTokens)) :
        whereTokens \in WhereTokensPool \cup AndOrTokensPool}
    \cup {Attempt("And", Len(whereTokens) > 0, And(bb, whereTokens)) :
        whereTokens \in AndOrTokensPool}
    \cup {Attempt("Or", Len(whereTokens) > 0, Or(bb, whereTokens)) :
        whereTokens \in AndOrTokensPool}
    \cup {Attempt("Args", TRUE, Args(bb, whereArgs)) : whereArgs \in ArgsPool}
    \cup {Attempt("OrderBy", TRUE, OrderBy(bb, x[1], x[2])) :
        x \in OrderColumnPool \X {ASC, DESC}}
    \cup {Attempt("ThenBy", TRUE, ThenBy(bb, x[1], x[2])) :
        x \in OrderColumnPool \X {ASC, DESC}}
    \cup {Attempt("Offset", TRUE, Offset(bb, offset)) : offset \in PagePool}
    \cup {Attempt("Limit", TRUE, Limit(bb, limit)) : limit \in PagePool}
    \cup {Attempt("Values", TRUE, Values(bb, values)) : values \in ValuesPool}
    \cup {Attempt("OnConflict", TRUE, OnConflict(bb, columns)) :
        columns \in ConflictKeysPool}
    \cup {Attempt("DoUpdate", TRUE, DoUpdate(bb, tokens)) : tokens \in UpdateTokensPool}
    \cup {Attempt("DoUpdateExceptPrimaryKeys", TRUE, DoUpdateExceptPrimaryKeys(bb)),
          Attempt("DoNothing", TRUE, DoNothing(bb))}

\* the predecessor table of the SELECT calls
SelectPredecessors ==
    [call \in {"Select", "From", "Join", "Where", "And", "Or", "Args", "OrderBy",
               "ThenBy", "Offset", "Limit"} |->
        CASE call = "Select" -> {previousIsSelect}
          [] call = "From" -> {previousIsSelect, previousIsSelectFrom}
          [] call = "Join" -> {previousIsSelectFrom, previousIsSelectJoin}
          [] call = "Where" ->
                 {previousIsSelectFrom, previousIsSelectJoin, previousIsSelectWhere}
          [] call \in {"And", "Or", "Args"} -> {previousIsSelectWhere}
          [] call = "OrderBy" ->
                 {previousIsSelectFrom, previousIsSelectJoin, previousIsSelectWhere,
                  previousIsSelectOrderBy}
          [] call = "ThenBy" -> {previousIsSelectOrderBy}
          [] call = "Offset" ->
                 {previousIsSelectFrom, previousIsSelectJoin, previousIsSelectWhere,
                  previousIsSelectOrderBy, previousIsSelectLimit}
          [] call = "Limit" ->
                 {previousIsSelectFrom, previousIsSelectJoin, previousIsSelectWhere,
                  previousIsSelectOrderBy, previousIsSelectOffset}]

\* the predecessor table of the INSERT calls
InsertPredecessors ==
    [call \in {"Values", "OnConflict", "DoNothing", "DoUpdate",
               "DoUpdateExceptPrimaryKeys", "Where", "And", "Or"} |->
        CASE call = "Values" -> {previousIsInsertInto}
          [] call = "OnConflict" -> {previousIsInsertIntoValues}
          [] call = "DoNothing" -> {previousIsInsertIntoOnConflict}
          [] call \in {"DoUpdate", "DoUpdateExceptPrimaryKeys"} ->
                 {previousIsInsertIntoOnConflict, previousIsInsertIntoOnConflictDoUpdate}
          [] call = "Where" -> {previousIsInsertIntoOnConflictDoUpdate}
          [] call \in {"And", "Or"} -> {previousIsInsertIntoOnConflictDoUpdateWhere}]

\* C1: on a SELECT builder, in every reachable state and for every call of
\* the SELECT predecessor table, the call panics when previousAction is
\* outside the call's predecessor set; And and Or also panic when the builder
\* holds no WHERE token.
SelectCallsFailOutsideAllowList ==
    b._type = sqlBuilderTypeSelect =>
        \A a \in Attempts(b) :
            (/\ a.call \in DOMAIN SelectPredecessors
             /\ \/ b.previousAction \notin SelectPredecessors[a.call]
                \/ a.call \in {"And", "Or"} /\ Len(b.whereTokens) = 0)
            => a.panic

\* a ThenBy made directly after Where was refused and left the builder as it was
SelectCallRefused ==
    /\ b._type = sqlBuilderTypeSelect
    /\ lastCall = "ThenBy"
    /\ lastResult = "rejected"
    /\ b.previousAction = previousIsSelectWhere
    /\ Len(b.whereTokens) > 0

\* C2: on an INSERT builder, in every reachable state, a call of the INSERT
\* predecessor table returns only when previousAction is in the call's
\* predecessor set (Values after InsertInto, OnConflict after Values,
\* DoNothing after OnConflict, DoUpdate and DoUpdateExceptPrimaryKeys after
\* OnConflict or DoUpdate, Where after DoUpdate, And and Or after that Where),
\* and DoUpdate / DoUpdateExceptPrimaryKeys only with a conflict key set;
\* every other call of the table panics.
InsertCallOrderEnforced ==
    b._type = sqlBuilderTypeInsert =>
        \A a \in Attempts(b) :
            (a.call \in DOMAIN InsertPredecessors /\ ~a.panic) =>
                /\ b.previousAction \in InsertPredecessors[a.call]
                /\ a.call \in {"DoUpdate", "DoUpdateExceptPrimaryKeys"}
                       => Len(b.insertOnConflictKeys) > 0

\* a Where made directly after OnConflict, before any DoUpdate, was refused
InsertCallRefused ==
    /\ b._type = sqlBuilderTypeInsert
    /\ lastCall = "Where"
    /\ lastResult = "rejected"
    /\ b.previousAction = previousIsInsertIntoOnConflict
    /\ Len(b.insertOnConflictKeys) > 0

\* the calls of the SELECT predecessor table that a builder accepts from
\* their predecessor states with valid arguments
AcceptsFromPredecessors(bb, calls) ==
    \A a \in Attempts(bb) :
        (/\ a.call \in calls
         /\ bb.previousAction \in SelectPredecessors[a.call]
         /\ a.valid
         /\ a.call \in {"And", "Or"} => Len(bb.whereTokens) > 0)
        => ~a.panic

BasicOnlyCalls == {"Select", "OrderBy", "ThenBy", "Offset", "Limit"}

\* C3 as the specification states it: on every SELECT-kind builder (Select,
\* SelectExists, SelectCount) every call of the predecessor table made from
\* one of its predecessor states with valid arguments is accepted.
EverySelectKindAcceptsListedCalls ==
    b._type = sqlBuilderTypeSelect =>
        AcceptsFromPredecessors(b, DOMAIN SelectPredecessors)

\* C3, amended: a builder created by Select accepts every call of the
\* predecessor table from its predecessor states with valid arguments; a
\* builder created by SelectExists or SelectCount accepts From, Join, Where,
\* And, Or and Args from their predecessor states, and refuses Select,
\* OrderBy, ThenBy, Offset and Limit in every state.
BasicSelectAcceptsListedCalls ==
    b._type = sqlBuilderTypeSelect =>
        IF b.selectType = selectTypeBasic
        THEN AcceptsFromPredecessors(b, DOMAIN SelectPredecessors)
        ELSE /\ AcceptsFromPredecessors(b, DOMAIN SelectPredecessors \ BasicOnlyCalls)
             /\ \A a \in Attempts(b) : a.call \in BasicOnlyCalls => a.panic

\* a basic SELECT went through OrderBy, Offset and Limit
PaginatedAfterOrderBy ==
    /\ b.selectType = selectTypeBasic
    /\ lastCall = "Limit"
    /\ lastResult = "ok"
    /\ b.offset > 0
    /\ b.limit > 0
    /\ Len(b.orders) > 0

\* C4: in every reachable state and for every sealed table descriptor,
\* registerUsingTable panics and leaves the builder as it was when the alias
\* is bound to another unique id (of the same record type or of another),
\* returns and changes nothing when the alias is bound to the same unique id,
\* and returns with the alias bound to the descriptor, every other binding
\* kept, when the alias was not bound.
AliasBoundToOneInstance ==
    \A use \in {t \in Tables : t.sealed} :
        LET r == registerUsingTable(b, use)
            bound == use.alias \in DOMAIN b.aliasToTableUniqueId
        IN  /\ (bound /\ b.aliasToTableUniqueId[use.alias] # use.uid)
                   => r.panic /\ r.b = b
            /\ (bound /\ b.aliasToTableUniqueId[use.alias] = use.uid)
                   => ~r.panic /\ r.b = b
            /\ ~bound
                   => /\ ~r.panic
                      /\ r.b.aliasToTableUniqueId = MapPut(b.aliasToTableUniqueId,
                                                           use.alias, use.uid)
                      /\ r.b.tableUniqueIdToAlias[use.uid] = use.alias

\* a From failed on a table of another record type whose alias t1 was bound
\* to t1, after it had registered t2; a second instance of the record type of
\* t1 is registered under the alias still1
AliasClashRefused ==
    /\ lastCall = "From"
    /\ lastResult = "panic"
    /\ DOMAIN b.aliasToTableUniqueId = {"t1", "t2", "still1"}
    /\ b.aliasToTableUniqueId["t1"] = t1.uid
    /\ b.aliasToTableUniqueId["still1"] = still1.uid

\* the index of the piece ")\nVALUES " in the pieces of an INSERT statement
ValuesAt(sql) ==
    CHOOSE p \in DOMAIN sql : sql[p] = ")\nVALUES "

\* C5: when Build returns on an INSERT builder with n records and c insert
\* columns, the VALUES clause holds n parenthesised groups separated by
\* commas, the i-th placeholder of the r-th group (r from 0) is "$" followed
\* by r*c+i, and the argument list has n*c entries.
PlaceholdersNumberedAcrossRows ==
    (b._type = sqlBuilderTypeInsert /\ lastCall = "Build" /\ lastResult = "ok") =>
        LET n == Len(b.insertValues)
            c == Len(b.insertColumns)
            p == ValuesAt(built.sql)
            group(r) == p + r * (2 * c + 2)
        IN  /\ Len(built.args) = n * c
            /\ Cardinality({q \in DOMAIN built.sql : q > p /\ built.sql[q] = "("}) = n
            /\ \A r \in 0..(n - 1) :
                   /\ built.sql[group(r) + 1] = "("
                   /\ built.sql[group(r) + 2 * c + 1] = ")"
                   /\ r > 0 => built.sql[group(r)] = ","
                   /\ \A i \in 1..c :
                          /\ built.sql[group(r) + 2 * i] = "$" \o ToString(r * c + i)
                          /\ i > 1 => built.sql[group(r) + 2 * i - 1] = ","

\* Build returned for two records of two columns each
TwoRowsBuilt ==
    /\ b._type = sqlBuilderTypeInsert
    /\ lastCall = "Build"
    /\ lastResult = "ok"
    /\ Len(b.insertValues) = 2
    /\ Len(b.insertColumns) = 2

\* C6: when Build returns on an INSERT builder with c insert columns, the
\* argument at index r*c+(i-1) (from 0) is what the insert spec registered
\* for the i-th insert column gives for the r-th record handed to Values,
\* whatever the insert columns are: all the registered columns in their
\* order, or the columns the caller named in the caller's order.
ArgumentsFollowColumnOrder ==
    (b._type = sqlBuilderTypeInsert /\ lastCall = "Build" /\ lastResult = "ok") =>
        LET c == Len(b.insertColumns)
            meta == genericTableMeta(b.insertIntoTable[1])
        IN  \A r \in 0..(Len(b.insertValues) - 1), i \in 1..c :
                built.args[r * c + (i - 1) + 1] =
                    insertSpec(MustGetColumnByName(meta, b.insertColumns[i].name),
                               b.insertValues[r + 1].rec)

\* Build returned for two records with the columns cost, pk1 named by the
\* caller, out of their registration order
ReorderedColumnsBuilt ==
    /\ b._type = sqlBuilderTypeInsert
    /\ lastCall = "Build"
    /\ lastResult = "ok"
    /\ Len(b.insertValues) = 2
    /\ [i \in DOMAIN b.insertColumns |-> b.insertColumns[i].name] = << "cost", "pk1" >>

\* the cursor is on a logical row
OnLogicalRow ==
    scanResult = "ok" /\ sr.anyNext /\ sr.rowIdx < Len(sr.rowsOfAliasToRow)

\* C7: whenever the cursor is on a logical row, Next panics and leaves the
\* cursor where it is unless GetTable has returned for every alias of the row
\* since the cursor came to it, and then Next returns with the cursor one row
\* further.
NextOnlyAfterEveryAliasRead ==
    OnLogicalRow =>
        LET r == ScannedRowsNext(sr)
        IN  IF gotten = DOMAIN sr.rowsOfAliasToRow[sr.rowIdx + 1]
            THEN ~r.panic /\ r.sr.rowIdx = sr.rowIdx + 1
            ELSE r.panic /\ r.sr = sr

\* Next panicked on a row of two aliases of which one was read
NextRefusedOnHalfReadRow ==
    /\ OnLogicalRow
    /\ lastCall = "Next"
    /\ lastResult = "panic"
    /\ gotten = {"t1"}
    /\ DOMAIN sr.rowsOfAliasToRow[sr.rowIdx + 1] = {"t1", "t2"}

\* the physical rows scanRows has taken from the row source
RowsDone ==
    Len(physicalRows) - Len(pending)

\* no two columns of the select list name the same column of the same alias
DistinctPairs(columns) ==
    \A i, j \in DOMAIN columns :
        (columns[i].table.alias = columns[j].table.alias
         /\ columns[i].name = columns[j].name) => i = j

\* the column metadata of the column at a position of the select list
SelectedColumn(columns, i) ==
    MustGetColumnByName(genericTableMeta(columns[i].table), columns[i].name)

\* a physical row whose Scan fails or one of whose raw money strings
\* parseMoney refuses
RowFails(columns, physical) ==
    \/ physical.scanErr
    \/ \E i \in DOMAIN columns :
           SelectedColumn(columns, i).raw /\ parseMoneyFails(physical.cells[i])

\* C8: for a select list of distinct (alias, column) pairs, as long as no
\* physical row taken so far fails, scanRows goes on and holds one logical
\* row per physical row taken, in order; the logical row holds one record per
\* alias of the select list, of the record type of the alias's table, and in
\* it the field of every selected column of the alias is the value at the
\* column's position in the physical row (parsed by the deferred transform
\* for a raw money string) and every other field is the zero value.
RowsCorrelatedByPosition ==
    (/\ scanResult # "none"
     /\ ~queryErr
     /\ DistinctPairs(b.selectColumns)
     /\ \A k \in 1..RowsDone : ~RowFails(b.selectColumns, physicalRows[k])) =>
        /\ scanResult \in {"running", "ok"}
        /\ Len(sr.rowsOfAliasToRow) = RowsDone
        /\ \A k \in 1..RowsDone :
               /\ DOMAIN sr.rowsOfAliasToRow[k] = AliasesOf(b.selectColumns)
               /\ \A i \in DOMAIN b.selectColumns :
                      LET alias == b.selectColumns[i].table.alias
                          col == SelectedColumn(b.selectColumns, i)
                          meta == genericTableMeta(b.selectColumns[i].table)
                          record == sr.rowsOfAliasToRow[k][alias].value
                          cell == physicalRows[k].cells[i]
                      IN  /\ record.typeName = meta.typeName
                          /\ ~record.ptr
                          /\ record.rec[col.field] =
                                 IF col.raw THEN Money(cell.s, cell.n) ELSE cell
                          /\ \A f \in DOMAIN record.rec :
                                 (\A j \in DOMAIN b.selectColumns :
                                     b.selectColumns[j].table.alias = alias
                                         => SelectedColumn(b.selectColumns, j).field # f)
                                 => record.rec[f] = NewRow(meta).rec[f]

\* scanRows returned the rows of two physical rows for the select list that
\* interleaves the columns of t1 and t2
InterleavedRowsCorrelated ==
    /\ scanResult = "ok"
    /\ Len(physicalRows) = 2
    /\ Len(sr.rowsOfAliasToRow) = 2
    /\ b.selectColumns = << ColOf(t1, "amount"), ColOf(t2, "amount"),
                            ColOf(t1, "cost"), ColOf(t2, "pk3") >>

\* C9: scanRows never panics on a row; once it has taken a physical row whose
\* Scan fails or one of whose transforms fails, its result is an error and no
\* ScannedRows; and every deferred transform that ran, ran for a row whose
\* Scan succeeded.
FailedRowIsAnError ==
    /\ scanResult # "panic"
    /\ (scanResult # "none" /\ ~queryErr
        /\ \E k \in 1..RowsDone : RowFails(b.selectColumns, physicalRows[k]))
           => scanResult = "error" /\ sr = NilRows
    /\ \A i \in DOMAIN transformsRun :
           /\ ~physicalRows[transformsRun[i].row].scanErr
           /\ DistinctPairs(b.selectColumns)

\* scanRows ended with an error on the Scan of its second row, after it had
\* run the transforms of the first
SecondRowScanFailed ==
    /\ scanResult = "error"
    /\ RowsDone = 2
    /\ physicalRows[2].scanErr
    /\ transformsRun # << >>
    /\ \A i \in DOMAIN transformsRun : transformsRun[i].row = 1

\* a value is a record of the record type registered for the target table
IsRecordOfTarget(bb, value) ==
    ~value.ptr /\ value.typeName = genericTableMeta(bb.insertIntoTable[1]).typeName

\* C10: on an INSERT builder, Values panics when one of the values handed to
\* it is not a record of the record type registered for the target table, and
\* then stores none of them; no value that is not such a record is among the
\* insert values, so Build never meets one.
ValuesRejectsOtherTypes ==
    b._type = sqlBuilderTypeInsert =>
        /\ \A values \in ValuesPool :
               (\E i \in DOMAIN values : ~IsRecordOfTarget(b, values[i])) =>
                   /\ Values(b, values).panic
                   /\ Values(b, values).b.insertValues = b.insertValues
        /\ \A i \in DOMAIN b.insertValues : IsRecordOfTarget(b, b.insertValues[i])

\* C11: in every reachable state of a builder, Build panics when a required
\* clause is missing: on an INSERT builder when there are no insert columns,
\* no target table or no values; on a SELECT builder when no FROM table is
\* set, and on a basic SELECT when no column is selected.  A SelectExists or
\* SelectCount builder with a FROM table and renderable WHERE tokens builds
\* with an empty column list.
MissingClauseFailsBuild ==
    /\ (/\ b._type = sqlBuilderTypeInsert
        /\ \/ Len(b.insertColumns) = 0
           \/ Len(b.insertIntoTable) = 0
           \/ Len(b.insertValues) = 0) => Build(b).panic
    /\ b._type = sqlBuilderTypeSelect =>
           /\ (Len(b.selectFromTable) = 0 => Build(b).panic)
           /\ (b.selectType = selectTypeBasic /\ Len(b.selectColumns) = 0)
                  => Build(b).panic
           /\ (/\ b.selectType \in {selectTypeExists, selectTypeCount}
               /\ Len(b.selectColumns) = 0
               /\ Len(b.selectFromTable) > 0
               /\ \A i \in DOMAIN b.whereTokens : TokenSupported(b.whereTokens[i]))
                  => ~Build(b).panic

\* Build was refused on an INSERT whose Values call was handed no record
BuildRefusedWithoutValues ==
    /\ lastCall = "Build"
    /\ built.panic
    /\ b._type = sqlBuilderTypeInsert
    /\ b.previousAction = previousIsInsertIntoValues
    /\ Len(b.insertValues) = 0

\* the names a list holds
NamesOf(names) == Range(names)

NoRepeat(names) ==
    \A i, j \in DOMAIN names : names[i] = names[j] => i = j

\* C12 as stated: a registration fails when the set of the names of its
\* primary-key columns differs from the set of the expected keys, and is not
\* refused for its keys when the two sets are equal.
PrimaryKeySetsDecide ==
    \A x \in RegisterPool :
        LET pk == NamesOf(pkColumnsName(AddColumns(x[3])))
            expected == NamesOf(wrapManyWithDoubleQuoteIfSqlKeyword(x[4]))
        IN  /\ pk # expected => Registration(x).panic # NotRefused
            /\ pk = expected => Registration(x).panic # RefusedKeys

\* C12: in every state of the registry and for every registration: it fails
\* when the set of the names of its primary-key columns (as stored) differs
\* from the set of the expected keys (as quoted), in whatever order either is
\* listed; when the sets are equal and no expected key is listed twice it is
\* not refused for its keys; an expected list that names a key twice is
\* refused.
PrimaryKeyListsDecide ==
    \A x \in RegisterPool :
        LET pk == NamesOf(pkColumnsName(AddColumns(x[3])))
            expected == NamesOf(wrapManyWithDoubleQuoteIfSqlKeyword(x[4]))
        IN  /\ pk # expected => Registration(x).panic # NotRefused
            /\ (pk = expected /\ NoRepeat(x[4]))
                   => Registration(x).panic # RefusedKeys
            /\ ~NoRepeat(x[4]) => Registration(x).panic # NotRefused

\* a type is registered whose keys were expected in another order than its
\* columns were added, and the registration made last was refused for its keys
KeysAcceptedInAnotherOrder ==
    /\ lastCall = "Register"
    /\ lastResult = RefusedKeys
    /\ \E t \in DOMAIN declared :
           /\ declared[t].expected = << "pk1", "name" >>
           /\ pkColumnsName(declared[t].meta.columns) = << "\"name\"", "pk1" >>

\* C13: a record type is registered at most once: every registration of a
\* registered type fails and leaves the registries as they are, whatever
\* name and columns it declares; a registration with two columns of the
\* same trimmed and quoted name fails; the columns of every registered table
\* have pairwise distinct names.
RegisteredAtMostOnce ==
    /\ \A x \in RegisterPool :
           LET r == Registration(x)
           IN  /\ x[1] \in DOMAIN declared =>
                      /\ r.panic # NotRefused
                      /\ r.typeToName = registeredTableTypeToName
                      /\ r.tables = registeredTables
               /\ ~NoRepeat(ColumnsName([columns |-> AddColumns(x[3])]))
                      => r.panic # NotRefused
    /\ \A n \in DOMAIN registeredTables : NoRepeat(ColumnsName(registeredTables[n]))

\* the second registration of a type was refused
SecondRegistrationRefused ==
    /\ lastCall = "Register"
    /\ lastResult = RefusedType
    /\ declared # EmptyMap

\* C14: a lookup by record type of a type that was registered succeeds and
\* returns the metadata that was registered for it, whatever was registered
\* afterwards; a lookup of a type that was not registered fails.
LookupReturnsWhatWasRegistered ==
    \A t \in TypePool :
        IF t \in DOMAIN declared
        THEN ~GetTableMetadataPanics(t) /\ GetTableMetadata(t) = declared[t].meta
        ELSE GetTableMetadataPanics(t)

\* C15: a column registered under a name is found afterwards by every lookup
\* by that name and by the name the registry stored for it, whatever keywords
\* were added and whenever.
QuotingTransparentToLookups ==
    \A t \in DOMAIN declared :
        \A i \in DOMAIN declared[t].given :
            LET n == declared[t].given[i]
                meta == declared[t].meta
            IN  n = TrimSpace(n) =>
                    /\ HasColumn(meta, n)
                    /\ HasColumn(meta, meta.columns[i].name)
                    /\ insertSpecOfColumnsOk(meta, << n >>)

\* the pieces of a statement from its piece word to the end of that line
ClauseOf(sql, word) ==
    LET i == CHOOSE i \in DOMAIN sql : sql[i] = word
        j == CHOOSE j \in DOMAIN sql :
                 /\ j > i
                 /\ sql[j] = "\n"
                 /\ \A k \in (i + 1)..(j - 1) : sql[k] # "\n"
    IN  SubSeq(sql, i, j)

\* the text a token of a WHERE clause is to render as
TrimmedToken(str) ==
    CASE str = " = $1 " -> "= $1"
      [] str = ",\n" -> ","
      [] OTHER -> str

WhereTokenText(token) ==
    CASE token.t = "string" -> TrimmedToken(token.s)
      [] token.t = "GenericColumnToUse" -> token.c.table.alias \o "." \o token.c.name
      [] token.t = "bool" -> IF token.n = 1 THEN "TRUE" ELSE "FALSE"
      [] OTHER -> ToString(token.n)

RECURSIVE WhereTokensText(_)
WhereTokensText(tokens) ==
    IF tokens = << >> THEN ""
    ELSE " " \o WhereTokenText(Head(tokens)) \o WhereTokensText(Tail(tokens))

WhereTokenKinds == {"string", "GenericColumnToUse", "bool"} \cup IntTypes

\* the WHERE tokens and arguments a call leaves
KeepsWhere(r, tokens, args) ==
    ~r.panic => r.b.whereTokens = tokens /\ r.b.whereArgs = args

\* C16: on a SELECT builder, Where appends its tokens to the WHERE tokens,
\* And and Or append AND / OR and then their tokens, Args appends its
\* arguments, and no other call touches either list; a statement that was
\* built holds the line WHERE followed by every token in that order, each
\* after one space (strings trimmed, columns as alias.column, integers in
\* decimal, booleans as TRUE / FALSE) when there is a token and no WHERE
\* otherwise, and returns the arguments as accumulated; Build panics on a
\* token of another kind.
WhereRenderedInCallOrder ==
    b._type = sqlBuilderTypeSelect =>
        /\ \A tokens \in WhereTokensPool \cup AndOrTokensPool :
               /\ KeepsWhere(Where(b, tokens), b.whereTokens \o tokens, b.whereArgs)
               /\ KeepsWhere(And(b, tokens),
                             b.whereTokens \o << GoString("AND") >> \o tokens,
                             b.whereArgs)
               /\ KeepsWhere(Or(b, tokens),
                             b.whereTokens \o << GoString("OR") >> \o tokens,
                             b.whereArgs)
        /\ \A args \in ArgsPool :
               KeepsWhere(Args(b, args), b.whereTokens, b.whereArgs \o args)
        /\ \A columns \in SelectColumnsPool :
               KeepsWhere(Select(b, columns), b.whereTokens, b.whereArgs)
        /\ \A tables \in FromTablesPool :
               KeepsWhere(From(b, tables), b.whereTokens, b.whereArgs)
        /\ \A x \in {InnerJoin, LeftJoin, RightJoin} \X JoinTablePool \X JoinKeyPairsPool :
               KeepsWhere(Join(b, x[1], x[2], x[3]), b.whereTokens, b.whereArgs)
        /\ \A x \in OrderColumnPool \X {ASC, DESC} :
               /\ KeepsWhere(OrderBy(b, x[1], x[2]), b.whereTokens, b.whereArgs)
               /\ KeepsWhere(ThenBy(b, x[1], x[2]), b.whereTokens, b.whereArgs)
        /\ \A n \in PagePool :
               /\ KeepsWhere(Offset(b, n), b.whereTokens, b.whereArgs)
               /\ KeepsWhere(Limit(b, n), b.whereTokens, b.whereArgs)
        /\ (\E i \in DOMAIN b.whereTokens : b.whereTokens[i].t \notin WhereTokenKinds)
               => Build(b).panic
        /\ (lastCall = "Build" /\ ~built.panic) =>
               /\ built.args = b.whereArgs
               /\ IF b.whereTokens = << >> THEN "WHERE" \notin Range(built.sql)
                  ELSE Text(ClauseOf(built.sql, "WHERE"))
                           = "WHERE" \o WhereTokensText(b.whereTokens) \o "\n"

\* a statement was built whose WHERE clause holds a boolean, a connective
\* and an integer
WhereWithConnectiveBuilt ==
    /\ lastCall = "Build"
    /\ ~built.panic
    /\ b.whereTokens = << GoBool(TRUE), GoString("AND"), GoInt(1) >>
    /\ Text(ClauseOf(built.sql, "WHERE")) = "WHERE TRUE AND 1\n"

\* the lines of a statement that open with OFFSET or LIMIT
LineAt(sql, i) ==
    LET j == CHOOSE j \in DOMAIN sql :
                 /\ j >= i
                 /\ sql[j] = "\n"
                 /\ \A k \in i..(j - 1) : sql[k] # "\n"
    IN  Text(SubSeq(sql, i, j))

PagingLines(sql) ==
    {LineAt(sql, i) : i \in {i \in DOMAIN sql :
                                /\ sql[i] \in {"OFFSET ", "LIMIT "}
                                /\ i > 1
                                /\ sql[i - 1] = "\n"}}

PagingWords(sql) ==
    Range(sql) \cap {"OFFSET ", " LIMIT ", "LIMIT "}

\* neither Offset nor Limit has been accepted on the builder: each of them is
\* followed by the other or by Build only
NeverPaged(bb) ==
    bb.previousAction \notin {previousIsSelectOffset, previousIsSelectLimit}

\* the paging of the statement built from the outcome r of a call
PagedAs(r, lines, words) ==
    (~r.panic /\ ~Build(r.b).panic) =>
        /\ PagingLines(Build(r.b).sql) = lines
        /\ PagingWords(Build(r.b).sql) = words

\* C17 as stated: whatever values n and m Offset and Limit accept, OFFSET n
\* LIMIT m is one line of the statement after both calls, OFFSET n without
\* LIMIT after Offset alone, LIMIT m without OFFSET after Limit alone.
EveryPageValueRendered ==
    (b._type = sqlBuilderTypeSelect /\ NeverPaged(b)) =>
        \A n \in PagePool, m \in PagePool :
            /\ PagedAs(Offset(b, n),
                       {"OFFSET " \o ToString(n) \o "\n"}, {"OFFSET "})
            /\ PagedAs(Limit(b, m),
                       {"LIMIT " \o ToString(m) \o "\n"}, {"LIMIT "})
            /\ \A r \in {Limit(Offset(b, n).b, m), Offset(Limit(b, m).b, n)} :
                   (~Offset(b, n).panic /\ ~Limit(b, m).panic) =>
                       PagedAs(r, {"OFFSET " \o ToString(n) \o " LIMIT "
                                       \o ToString(m) \o "\n"},
                                  {"OFFSET ", " LIMIT "})

\* what the statement is to hold for the offset n and the limit m, where 0
\* stands for a value that was not set
ExpectedPagingLines(n, m) ==
    IF n > 0 /\ m > 0
    THEN {"OFFSET " \o ToString(n) \o " LIMIT " \o ToString(m) \o "\n"}
    ELSE IF n > 0 THEN {"OFFSET " \o ToString(n) \o "\n"}
    ELSE IF m > 0 THEN {"LIMIT " \o ToString(m) \o "\n"}
    ELSE {}

ExpectedPagingWords(n, m) ==
    IF n > 0 /\ m > 0 THEN {"OFFSET ", " LIMIT "}
    ELSE IF n > 0 THEN {"OFFSET "}
    ELSE IF m > 0 THEN {"LIMIT "}
    ELSE {}

\* C17: a builder on which neither Offset nor Limit was accepted holds no
\* offset and no limit and builds a statement without paging; Offset and
\* Limit accept every value, store it and leave the other value alone; the
\* statement built after them holds the single line OFFSET n LIMIT m when
\* both values are greater than 0, OFFSET n without LIMIT when only the
\* offset is, LIMIT m without OFFSET when only the limit is, and no paging
\* when neither is: the value 0 is rendered as a call that was not made.
PagingRenderedForPositiveValues ==
    b._type = sqlBuilderTypeSelect =>
        /\ NeverPaged(b) =>
               /\ b.offset = 0
               /\ b.limit = 0
               /\ PagedAs(Ok(b), {}, {})
        /\ \A n \in PagePool :
               /\ ~Offset(b, n).panic =>
                      /\ Offset(b, n).b.offset = n
                      /\ Offset(b, n).b.limit = b.limit
               /\ PagedAs(Offset(b, n), ExpectedPagingLines(n, b.limit),
                          ExpectedPagingWords(n, b.limit))
        /\ \A m \in PagePool :
               /\ ~Limit(b, m).panic =>
                      /\ Limit(b, m).b.limit = m
                      /\ Limit(b, m).b.offset = b.offset
               /\ PagedAs(Limit(b, m), ExpectedPagingLines(b.offset, m),
                          ExpectedPagingWords(b.offset, m))
        /\ (lastCall = "Build" /\ ~built.panic) =>
               /\ PagingLines(built.sql) = ExpectedPagingLines(b.offset, b.limit)
               /\ PagingWords(built.sql) = ExpectedPagingWords(b.offset, b.limit)

\* a statement was built after Offset(1) and Limit(1)
OffsetAndLimitBuilt ==
    /\ lastCall = "Build"
    /\ ~built.panic
    /\ b.offset = 1
    /\ b.limit = 1
    /\ PagingLines(built.sql) = {"OFFSET 1 LIMIT 1\n"}

\* the text a column token is to render as in a clause: "alias" for
\* alias.column, "bare" for the column name, "table" for table.column
ColumnTextAs(c, qualifier) ==
    CASE qualifier = "alias" -> c.table.alias \o "." \o c.name
      [] qualifier = "table" -> c.table.name \o "." \o c.name
      [] OTHER -> c.name

TokenTextAs(token, qualifier) ==
    CASE token.t = "string" -> TrimmedToken(token.s)
      [] token.t = "GenericColumnToUse" -> ColumnTextAs(token.c, qualifier)
      [] token.t = "bool" -> IF token.n = 1 THEN "TRUE" ELSE "FALSE"
      [] OTHER -> ToString(token.n)

RECURSIVE TokensTextAs(_, _)
TokensTextAs(tokens, qualifier) ==
    IF tokens = << >> THEN ""
    ELSE " " \o TokenTextAs(Head(tokens), qualifier)
             \o TokensTextAs(Tail(tokens), qualifier)

\* the names of the conflict keys, separated by a comma and a space
RECURSIVE KeysText(_)
KeysText(keys) ==
    IF keys = << >> THEN ""
    ELSE IF Len(keys) = 1 THEN keys[1].name
    ELSE keys[1].name \o ", " \o KeysText(Tail(keys))

\* what follows the VALUES clause of a statement
ConflictPart(sql) ==
    LET opens == {i \in DOMAIN sql :
                     sql[i] \in {"\nON CONFLICT DO NOTHING", "\nON CONFLICT ("}}
    IN  IF opens = {} THEN << >>
        ELSE SubSeq(sql, CHOOSE i \in opens : \A j \in opens : i <= j, Len(sql))

\* the conflict clause the fields of the builder ask for
ExpectedConflictText(bb) ==
    IF bb.insertOnConflictDoNothing THEN "\nON CONFLICT DO NOTHING"
    ELSE IF bb.insertOnConflictKeys # << >>
    THEN "\nON CONFLICT (" \o KeysText(bb.insertOnConflictKeys) \o ") DO UPDATE SET\n"
         \o TokensTextAs(bb.insertOnConflictDoUpdateTokens, "bare")
         \o (IF bb.insertOnConflictDoUpdateWhereTokens # << >>
             THEN "\nWHERE"
                  \o TokensTextAs(bb.insertOnConflictDoUpdateWhereTokens, "table")
             ELSE "")
    ELSE ""

\* C18: on an INSERT builder, OnConflict stores its keys in call order,
\* DoNothing sets the do-nothing mark (which is set exactly after DoNothing)
\* and keeps the keys, DoUpdate appends its tokens, after a comma token when
\* tokens are there already; a statement that was built ends with ON
\* CONFLICT DO NOTHING, without keys and without DO UPDATE, when the mark is
\* set; otherwise, when there are keys, with ON CONFLICT (keys) DO UPDATE SET,
\* the update tokens and, if there are any, WHERE and the DO UPDATE WHERE
\* tokens; otherwise with the last row of VALUES.
ConflictClauseRendered ==
    b._type = sqlBuilderTypeInsert =>
        /\ \A columns \in ConflictKeysPool :
               ~OnConflict(b, columns).panic =>
                   OnConflict(b, columns).b.insertOnConflictKeys = columns
        /\ b.insertOnConflictDoNothing
               <=> b.previousAction = previousIsInsertIntoOnConflictDoNoThing
        /\ ~DoNothing(b).panic =>
               /\ DoNothing(b).b.insertOnConflictDoNothing
               /\ DoNothing(b).b.insertOnConflictKeys = b.insertOnConflictKeys
        /\ \A tokens \in UpdateTokensPool :
               ~DoUpdate(b, tokens).panic =>
                   /\ DoUpdate(b, tokens).b.insertOnConflictDoUpdateTokens
                          = IF b.insertOnConflictDoUpdateTokens = << >> THEN tokens
                            ELSE b.insertOnConflictDoUpdateTokens
                                     \o << GoString(",\n") >> \o tokens
                   /\ DoUpdate(b, tokens).b.insertOnConflictKeys
                          = b.insertOnConflictKeys
                   /\ ~DoUpdate(b, tokens).b.insertOnConflictDoNothing
        /\ (lastCall = "Build" /\ ~built.panic) =>
               /\ Text(ConflictPart(built.sql)) = ExpectedConflictText(b)
               /\ b.insertOnConflictDoNothing =>
                      /\ built.sql[Len(built.sql)] = "\nON CONFLICT DO NOTHING"
                      /\ "DO UPDATE SET\n" \notin Range(built.sql)
               /\ (~b.insertOnConflictDoNothing /\ b.insertOnConflictKeys = << >>) =>
                      built.sql[Len(built.sql)] = ")"

\* a statement was built after two DoUpdate calls
TwoUpdatesBuilt ==
    /\ lastCall = "Build"
    /\ ~built.panic
    /\ b.insertOnConflictDoUpdateTokens
           = << GoString(FromExcluded(ColOf(t1, "cost"))), GoString(",\n"),
                ColumnToken(ColOf(t1, "amount")) >>
    /\ Text(ConflictPart(built.sql))
           = "\nON CONFLICT (pk1, pk2) DO UPDATE SET\n cost = excluded.cost , amount"

\* the texts of a list, separated by sep
RECURSIVE JoinedText(_, _)
JoinedText(texts, sep) ==
    IF texts = << >> THEN ""
    ELSE IF Len(texts) = 1 THEN texts[1]
    ELSE texts[1] \o sep \o JoinedText(Tail(texts), sep)

\* the line a join is to render as, its key columns as alias.column
ExpectedJoinLine(j) ==
    (IF j.joinType = LeftJoin THEN "LEFT JOIN "
     ELSE IF j.joinType = RightJoin THEN "RIGHT JOIN " ELSE "INNER JOIN ")
    \o j.joinOnTable.name \o " AS " \o j.joinOnTable.alias \o " ON "
    \o JoinedText([k \in 1..(Len(j.joinOnColumns) \div 2) |->
                      ColumnTextAs(j.joinOnColumns[2 * k - 1], "alias") \o " = "
                      \o ColumnTextAs(j.joinOnColumns[2 * k], "alias")], " AND ")
    \o "\n"

JoinLines(sql) ==
    {LineAt(sql, i) : i \in {i \in DOMAIN sql :
                                sql[i] \in {"INNER JOIN ", "LEFT JOIN ", "RIGHT JOIN "}}}

\* the pieces of a statement after the piece opening and before the piece
\* closing, or to the end when closing is not there
Between(sql, opening, closing) ==
    LET i == CHOOSE i \in DOMAIN sql : sql[i] = opening
        ends == {j \in DOMAIN sql : j > i /\ sql[j] = closing}
    IN  SubSeq(sql, i + 1,
               IF ends = {} THEN Len(sql)
               ELSE (CHOOSE j \in ends : \A k \in ends : j <= k) - 1)

\* C19: in a statement that was built, a column is written as alias.column
\* in the SELECT list, in the ON part of a join, in the WHERE clause of a
\* SELECT and in ORDER BY, as the bare column name among the DO UPDATE SET
\* tokens, and as table.column, with the name of its table and not the
\* alias, among the DO UPDATE WHERE tokens.
QualifierFollowsClause ==
    (lastCall = "Build" /\ ~built.panic) =>
        /\ (b._type = sqlBuilderTypeSelect /\ b.selectType = selectTypeBasic) =>
               Text(ClauseOf(built.sql, "SELECT "))
                   = "SELECT "
                     \o JoinedText([i \in DOMAIN b.selectColumns |->
                                       ColumnTextAs(b.selectColumns[i], "alias")], ", ")
                     \o "\n"
        /\ b._type = sqlBuilderTypeSelect =>
               /\ JoinLines(built.sql)
                      = {ExpectedJoinLine(b.joinsOn[i]) : i \in DOMAIN b.joinsOn}
               /\ b.whereTokens # << >> =>
                      Text(Between(built.sql, "WHERE", "\n"))
                          = TokensTextAs(b.whereTokens, "alias")
               /\ b.orders # << >> =>
                      Text(Between(built.sql, "ORDER BY ", "\n"))
                          = JoinedText([i \in DOMAIN b.orders |->
                                ColumnTextAs(b.orders[i].column, "alias")
                                \o (IF b.orders[i].asc THEN " ASC" ELSE " DESC")], ", ")
        /\ (/\ b._type = sqlBuilderTypeInsert
            /\ ~b.insertOnConflictDoNothing
            /\ b.insertOnConflictKeys # << >>) =>
               /\ Text(Between(built.sql, "DO UPDATE SET\n", "\nWHERE"))
                      = TokensTextAs(b.insertOnConflictDoUpdateTokens, "bare")
               /\ b.insertOnConflictDoUpdateWhereTokens # << >> =>
                      Text(Between(built.sql, "\nWHERE", "\n"))
                          = TokensTextAs(b.insertOnConflictDoUpdateWhereTokens, "table")

\* an INSERT was built with the column amount of table1, used under the
\* alias t1, among its DO UPDATE SET tokens and its DO UPDATE WHERE tokens
ColumnInBothUpdateClausesBuilt ==
    /\ lastCall = "Build"
    /\ ~built.panic
    /\ b._type = sqlBuilderTypeInsert
    /\ b.insertIntoTable[1].alias # b.insertIntoTable[1].name
    /\ ~b.insertOnConflictDoNothing
    /\ b.insertOnConflictKeys # << >>
    /\ b.insertOnConflictDoUpdateTokens = << ColumnToken(ColOf(t1, "amount")) >>
    /\ b.insertOnConflictDoUpdateWhereTokens
           = << ColumnToken(ColOf(t1, "amount")), GoString(" = $1 ") >>
    /\ Text(Between(built.sql, "DO UPDATE SET\n", "\nWHERE")) = " amount"
    /\ Text(Between(built.sql, "\nWHERE", "\n")) = " table1.amount = $1"

\* one DoUpdate call per column, each handing col = excluded.col; the chain
\* ends at the first call that panics
RECURSIVE DoUpdateEach(_, _)
DoUpdateEach(r, columns) ==
    IF r.panic \/ columns = << >> THEN r
    ELSE DoUpdateEach(
             DoUpdate(r.b, << GoString(Head(columns).name \o " = excluded."
                                          \o Head(columns).name) >>),
             Tail(columns))

IsNotPk(column) == ~column.isPk

\* the columns of the table of an INSERT builder that are no primary key, in
\* the order of their registration
NonPkColumns(bb) ==
    SelectSeq(registeredTables[registeredTableTypeToName[
                  bb.insertIntoTable[1].typeName]].columns, IsNotPk)

\* C20: on an INSERT builder whose table has a column that is no primary
\* key, DoUpdateExceptPrimaryKeys panics where the first
\* of the DoUpdate calls, one per column of the table that is no primary key,
\* in registration order, each handing col = excluded.col, panics; it leaves
\* the builder those calls leave, after DoUpdate as the previous action, and
\* Build gives the same statement and arguments for both; what it adds to
\* the update tokens names every column that is no primary key, whatever
\* columns are inserted, and no primary key.
ExceptPrimaryKeysIsOneUpdatePerColumn ==
    (b._type = sqlBuilderTypeInsert /\ NonPkColumns(b) # << >>) =>
        LET whole == DoUpdateExceptPrimaryKeys(b)
            each == DoUpdateEach(Ok(b), NonPkColumns(b))
            added == SubSeq(whole.b.insertOnConflictDoUpdateTokens,
                            Len(b.insertOnConflictDoUpdateTokens) + 1,
                            Len(whole.b.insertOnConflictDoUpdateTokens))
        IN  /\ whole.panic = each.panic
            /\ whole.b = each.b
            /\ Build(whole.b) = Build(each.b)
            /\ ~whole.panic =>
                   /\ whole.b.previousAction = previousIsInsertIntoOnConflictDoUpdate
                   /\ \A i \in DOMAIN registeredTables[registeredTableTypeToName[
                                  b.insertIntoTable[1].typeName]].columns :
                          LET column == registeredTables[registeredTableTypeToName[
                                            b.insertIntoTable[1].typeName]].columns[i]
                          IN  GoString(column.name \o " = excluded." \o column.name)
                                  \in Range(added) <=> ~column.isPk
                   /\ \A i \in DOMAIN added :
                          added[i] = GoString(",\n")
                          \/ \E j \in DOMAIN NonPkColumns(b) :
                                 added[i] = GoString(NonPkColumns(b)[j].name
                                                \o " = excluded."
                                                \o NonPkColumns(b)[j].name)

\* a statement was built after DoUpdateExceptPrimaryKeys on an INSERT that
\* names one column that is no primary key and one that is
ExceptPrimaryKeysBuilt ==
    /\ lastCall = "Build"
    /\ ~built.panic
    /\ [i \in DOMAIN b.insertColumns |-> b.insertColumns[i].name] = << "cost", "pk1" >>
    /\ b.insertOnConflictKeys # << >>
    /\ ~b.insertOnConflictDoNothing
    /\ Text(Between(built.sql, "DO UPDATE SET\n", "\nWHERE"))
           = " amount = excluded.amount , cost = excluded.cost"

\* the values of previousAction
PreviousActionValues ==
    {previousIsSelect, previousIsSelectFrom, previousIsSelectJoin,
     previousIsSelectWhere, previousIsSelectOrderBy, previousIsSelectOffset,
     previousIsSelectLimit, previousIsInsertInto, previousIsInsertIntoValues,
     previousIsInsertIntoOnConflict, previousIsInsertIntoOnConflictDoUpdate,
     previousIsInsertIntoOnConflictDoUpdateWhere,
     previousIsInsertIntoOnConflictDoNoThing}

SelectOnlyCallsAll(bb, Holds(_)) ==
    /\ \A columns \in SelectColumnsPool : Holds(Select(bb, columns))
    /\ \A tables \in FromTablesPool : Holds(From(bb, tables))
    /\ \A x \in {InnerJoin, LeftJoin, RightJoin} \X JoinTablePool \X JoinKeyPairsPool :
           Holds(Join(bb, x[1], x[2], x[3]))
    /\ \A whereArgs \in ArgsPool : Holds(Args(bb, whereArgs))
    /\ \A x \in OrderColumnPool \X {ASC, DESC} :
           Holds(OrderBy(bb, x[1], x[2])) /\ Holds(ThenBy(bb, x[1], x[2]))
    /\ \A n \in PagePool : Holds(Offset(bb, n)) /\ Holds(Limit(bb, n))

\* Holds is true of the outcome of every call that is for an INSERT only
InsertOnlyCallsAll(bb, Holds(_)) ==
    /\ \A values \in ValuesPool : Holds(Values(bb, values))
    /\ \A columns \in ConflictKeysPool : Holds(OnConflict(bb, columns))
    /\ \A tokens \in UpdateTokensPool : Holds(DoUpdate(bb, tokens))
    /\ Holds(DoUpdateExceptPrimaryKeys(bb))
    /\ Holds(DoNothing(bb))

\* Holds is true of the outcome of every call that both kinds take
SharedCallsAll(bb, Holds(_)) ==
    /\ \A tokens \in WhereTokensPool : Holds(Where(bb, tokens))
    /\ \A tokens \in AndOrTokensPool : Holds(And(bb, tokens)) /\ Holds(Or(bb, tokens))

\* one call of each operation that is for a SELECT only
SelectOnlyCallsOnce(bb, Holds(_)) ==
    /\ Holds(Select(bb, << ColOf(t1, "amount") >>))
    /\ Holds(From(bb, << t1, t2 >>))
    /\ Holds(Join(bb, InnerJoin, t2, << ColOf(t1, "pk1"), ColOf(t2, "pk1") >>))
    /\ Holds(Args(bb, << GoInt(100) >>))
    /\ Holds(OrderBy(bb, ColOf(t1, "amount"), ASC))
    /\ Holds(ThenBy(bb, ColOf(t1, "amount"), ASC))
    /\ Holds(Offset(bb, 1))
    /\ Holds(Limit(bb, 1))

\* one call of each operation that is for an INSERT only
InsertOnlyCallsOnce(bb, Holds(_)) ==
    /\ Holds(Values(bb, << rowA >>))
    /\ Holds(OnConflict(bb, << ColOf(t1, "pk1"), ColOf(t1, "pk2") >>))
    /\ Holds(DoUpdate(bb, << GoString(FromExcluded(ColOf(t1, "cost"))) >>))
    /\ Holds(DoUpdateExceptPrimaryKeys(bb))
    /\ Holds(DoNothing(bb))

\* C22: the builder is a SELECT or an INSERT and no call changes which; on
\* an INSERT builder Select, From, Join, Args, OrderBy, ThenBy, Offset and
\* Limit panic, whatever the previous action is, and so do Values, OnConflict, DoUpdate, DoUpdateExceptPrimaryKeys and
\* DoNothing on a SELECT builder; the lists, marks and numbers of the other
\* kind are empty.
KindIsFixed ==
    /\ b._type \in {sqlBuilderTypeSelect, sqlBuilderTypeInsert}
    /\ SharedCallsAll(b, LAMBDA r : r.b._type = b._type)
    /\ b._type = sqlBuilderTypeInsert =>
           /\ InsertOnlyCallsAll(b, LAMBDA r : r.b._type = b._type)
           /\ SelectOnlyCallsAll(b, LAMBDA r : r.panic)
           /\ \A a \in PreviousActionValues :
                  SelectOnlyCallsOnce([b EXCEPT !.previousAction = a],
                      LAMBDA r : r.panic /\ r.b._type = b._type)
           /\ b.selectType = notSelectTypeBasic
           /\ b.selectColumns = << >>
           /\ b.selectFromTable = << >>
           /\ b.joinsOn = << >>
           /\ b.whereTokens = << >>
           /\ b.whereArgs = << >>
           /\ b.orders = << >>
           /\ b.offset = 0
           /\ b.limit = 0
    /\ b._type = sqlBuilderTypeSelect =>
           /\ SelectOnlyCallsAll(b, LAMBDA r : r.b._type = b._type)
           /\ InsertOnlyCallsAll(b, LAMBDA r : r.panic)
           /\ \A a \in PreviousActionValues :
                  InsertOnlyCallsOnce([b EXCEPT !.previousAction = a],
                      LAMBDA r : r.panic /\ r.b._type = b._type)
           /\ b.insertIntoTable = << >>
           /\ b.insertColumns = << >>
           /\ b.insertValues = << >>
           /\ b.insertOnConflictKeys = << >>
           /\ b.insertOnConflictDoUpdateTokens = << >>
           /\ b.insertOnConflictDoUpdateWhereTokens = << >>
           /\ ~b.insertOnConflictDoNothing

\* an INSERT builder that holds values refused From and stayed as it was
FromRefusedOnInsert ==
    /\ b._type = sqlBuilderTypeInsert
    /\ lastCall = "From"
    /\ lastResult = "rejected"
    /\ b.insertValues # << >>

\* the names handed to As and Alias
DescriptorNamePool == {"", "table1", "table1_2026", "x"}

\* the descriptors a builder refers to: those of FROM, of the joins, of the
\* INSERT, and the owners of its columns and of its column tokens
ColumnTokenTables(tokens) ==
    {tokens[i].c.table : i \in {i \in DOMAIN tokens : tokens[i].t = "GenericColumnToUse"}}

ReferencedTables(bb) ==
    Range(bb.selectFromTable)
    \cup {bb.joinsOn[i].joinOnTable : i \in DOMAIN bb.joinsOn}
    \cup UNION {Range(TablesOf(bb.joinsOn[i].joinOnColumns)) : i \in DOMAIN bb.joinsOn}
    \cup Range(TablesOf(bb.selectColumns))
    \cup {bb.orders[i].column.table : i \in DOMAIN bb.orders}
    \cup ColumnTokenTables(bb.whereTokens)
    \cup Range(bb.insertIntoTable)
    \cup Range(TablesOf(bb.insertColumns))
    \cup Range(TablesOf(bb.insertOnConflictKeys))
    \cup ColumnTokenTables(bb.insertOnConflictDoUpdateTokens)
    \cup ColumnTokenTables(bb.insertOnConflictDoUpdateWhereTokens)

\* a sealed descriptor refuses As and Alias and keeps its name and alias
KeepsNameAndAlias(t) ==
    \A name \in DescriptorNamePool :
        /\ As(t, name).panic
        /\ As(t, name).t = t
        /\ Alias(t, name).panic
        /\ Alias(t, name).t = t

\* C23: a sealed descriptor refuses every As and Alias and keeps its name and
\* alias; registering an unsealed descriptor with a builder fails, and so do
\* Columns and Col on it; every descriptor the builder refers to is sealed
\* and so keeps its name and alias for as long as the builder lives.
ReferencedTablesAreSealed ==
    /\ \A t \in Tables :
           /\ KeepsNameAndAlias(Seal(t).t)
           /\ ~t.sealed =>
                  /\ registerUsingTable(b, t).panic
                  /\ ColumnsPanics(t, << >>)
                  /\ ColumnsPanics(t, << "pk1" >>)
    /\ \A t \in ReferencedTables(b) :
           /\ t.sealed
           /\ KeepsNameAndAlias(t)

\* the columns a column list names: all of them when it is empty
NamedColumns(meta, columnsName) ==
    {MustGetColumnByName(meta, n) :
        n \in Range(IF Len(columnsName) = 0 THEN ColumnsName(meta) ELSE columnsName)}

\* the raw string of a Money reads back as that Money
Lossless(money) ==
    /\ ~parseMoneyFails(MoneyString(money))
    /\ parseMoney(MoneyString(money)) = money

\* C24: when every column of the list that is written as a raw string holds
\* a value that its string reads back as, the values the insert specs give
\* for a record, stored through the select specs of the same list over a new
\* row and transformed, give without an error a row that equals the record
\* in every column of the list.
RoundTripOnLosslessColumns ==
    (/\ roundTrip.stage = "done"
     /\ \A col \in NamedColumns(roundTripMeta, roundTrip.columnsName) :
            col.raw => Lossless(roundTrip.record.rec[col.field]))
    => /\ ~roundTrip.err
       /\ roundTrip.row.typeName = roundTrip.record.typeName
       /\ \A col \in NamedColumns(roundTripMeta, roundTrip.columnsName) :
              roundTrip.row.rec[col.field] = roundTrip.record.rec[col.field]

\* a record came back whose cost, 5usd, went through the raw string, in a
\* list that names cost before pk1
MoneyCameBack ==
    /\ roundTrip.stage = "done"
    /\ roundTrip.columnsName = << "cost", "pk1" >>
    /\ roundTrip.record.rec.Cost = Money("usd", 5)
    /\ roundTrip.record.rec.Pk1 = GoString("k")
    /\ roundTrip.values = << DigitsThen(5, "usd"), GoString("k") >>
    /\ roundTrip.row.rec.Cost = Money("usd", 5)
    /\ roundTrip.row.rec.Pk1 = GoString("k")

\* C25: on an INSERT builder that took InsertInto, Values, OnConflict,
\* DoUpdate and Where, Args is accepted, and the statement that Build
\* returned before it Build returns after it, with the arguments of Args
\* after those of the rows.
ArgsAcceptedAfterInsertWhere ==
    (/\ b._type = sqlBuilderTypeInsert
     /\ b.previousAction = previousIsInsertIntoOnConflictDoUpdateWhere
     /\ ~Build(b).panic)
    => \A whereArgs \in ArgsPool :
           /\ ~Args(b, whereArgs).panic
           /\ ~Build(Args(b, whereArgs).b).panic
           /\ Build(Args(b, whereArgs).b).sql = Build(b).sql
           /\ Build(Args(b, whereArgs).b).args = Build(b).args \o whereArgs

\* C26: on the ScannedRows that scanRows returned with n logical rows, the
\* k-th call of Next that returned, returned true for k <= n and false for
\* k = n + 1; Next returns whenever the caller has read every alias of the
\* row the cursor is on; after the k-th Next, k <= n, GetTable returns for
\* every alias of the select list the record of that alias in the k-th
\* logical row; and before the first Next GetTable panics.
ForwardOnlyIteration ==
    scanResult = "ok" =>
        LET n == Len(sr.rowsOfAliasToRow)
            k == Len(nextReturns)
        IN  /\ k <= n + 1
            /\ \A i \in 1..k : nextReturns[i] = (i <= n)
            /\ (k = 0 \/ (k <= n /\ gotten = DOMAIN sr.rowsOfAliasToRow[k])) =>
                   /\ ~ScannedRowsNext(sr).panic
                   /\ RowInRange(ScannedRowsNext(sr).sr) = (k + 1 <= n)
            /\ k \in 1..n =>
                   \A alias \in AliasesOf(b.selectColumns) :
                       /\ ~ScannedRowsGetTable(sr, alias).panic
                       /\ ScannedRowsGetTable(sr, alias).value =
                              sr.rowsOfAliasToRow[k][alias].value
            /\ k = 0 =>
                   \A alias \in GetTableAliasPool : ScannedRowsGetTable(sr, alias).panic

\* the third Next returned false on two logical rows that hold different
\* records for t1, every alias of which the caller had read
IteratedToTheEnd ==
    /\ scanResult = "ok"
    /\ lastCall = "Next"
    /\ nextReturns = << TRUE, TRUE, FALSE >>
    /\ Len(sr.rowsOfAliasToRow) = 2
    /\ "t1" \in AliasesOf(b.selectColumns)
    /\ sr.rowsOfAliasToRow[1]["t1"].value # sr.rowsOfAliasToRow[2]["t1"].value
    /\ \A i \in 1..2 : \A alias \in DOMAIN sr.rowsOfAliasToRow[i] :
           sr.rowsOfAliasToRow[i][alias].read

\* C27: when two goroutines call Build for the same record type, not
\* registered before, each with columns and keys that Build accepts, then in
\* every interleaving at most one of them is past the Lock at a time, and once
\* both are done exactly one has registered and the other has panicked as
\* already registered, and the two registries hold one entry each: the type
\* under the name of the one that registered, and its metadata under that name.
OneOfTwoRegisters ==
    /\ \A p, q \in Goroutines :
           (p # q /\ registering[p].pc \in {"checks", "store name", "store table", "Unlock"})
               => registering[q].pc \in {"Lock", "done"}
    /\ \A p, q \in Goroutines :
           (/\ p # q
            /\ registering[p].x[1] = registering[q].x[1]
            /\ registering[p].pc = "done"
            /\ registering[q].pc = "done"
            /\ {registering[p].panic, registering[q].panic}
                   \cap {RefusedColumn, RefusedKeys} = {}) =>
               /\ {registering[p].panic, registering[q].panic} = {NotRefused, RefusedType}
               /\ registering[p].panic = NotRefused =>
                      /\ registeredTableTypeToName =
                             MapPut(EmptyMap, registering[p].x[1], registering[p].x[2])
                      /\ registeredTables =
                             MapPut(EmptyMap, registering[p].x[2],
                                    Registration(registering[p].x).meta)

\* both goroutines are done with the same type under two names, and the
\* second of them was the one that registered
SecondGoroutineRegistered ==
    /\ \A p \in Goroutines : registering[p].pc = "done"
    /\ registering[1].x[1] = registering[2].x[1]
    /\ registering[1].x[2] # registering[2].x[2]
    /\ registering[1].panic = RefusedType
    /\ registering[2].panic = NotRefused

\* C28: in every reachable state of a builder no two table descriptors of
\* different unique ids that the statement refers to (as a FROM table, a
\* joined table, the owner of a selected column, of a JOIN ON column, of a
\* column token of the WHERE clause or of an ORDER BY column) have the same
\* alias.
NoAliasSharedInStatement ==
    \A t, u \in ReferencedTables(b) :
        tableAlias(t) = tableAlias(u) => uniqueIdentity(t) = uniqueIdentity(u)

\* alias a is bound to unique id u exactly when u is bound to a
Inverse(bb) ==
    /\ \A alias \in DOMAIN bb.aliasToTableUniqueId :
           /\ bb.aliasToTableUniqueId[alias] \in DOMAIN bb.tableUniqueIdToAlias
           /\ bb.tableUniqueIdToAlias[bb.aliasToTableUniqueId[alias]] = alias
    /\ \A uid \in DOMAIN bb.tableUniqueIdToAlias :
           /\ bb.tableUniqueIdToAlias[uid] \in DOMAIN bb.aliasToTableUniqueId
           /\ bb.aliasToTableUniqueId[bb.tableUniqueIdToAlias[uid]] = uid

\* C29: in every reachable state of a builder, also after a call that failed
\* on one of its registrations, aliasToTableUniqueId and tableUniqueIdToAlias
\* are inverse of each other, and they still are after registerUsingTable of
\* any descriptor, whether it returns or panics; the descriptors have
\* different unique ids.
AliasMapsAreInverse ==
    /\ Inverse(b)
    /\ \A use \in Tables : Inverse(registerUsingTable(b, use).b)

\* a Select failed on its second column, whose alias t1 was bound to another
\* descriptor, after it had registered the descriptor of its first
SelectFailedOnSecondRegistration ==
    /\ lastCall = "Select"
    /\ lastResult = "panic"
    /\ "still1" \in DOMAIN b.aliasToTableUniqueId
    /\ b.aliasToTableUniqueId["t1"] = uniqueIdentity(t1)
    /\ Range(TablesOf(b.selectColumns)) = {t1}

\* the first position of the select list that holds the column's pair of
\* alias and name
FirstPosition(columns, i) ==
    \A j \in 1..(i - 1) :
        ~(/\ tableAlias(columns[j].table) = tableAlias(columns[i].table)
          /\ columns[j].name = columns[i].name)

\* C30: once scanRows has built its index map, for every select list the
\* destination list it hands to Scan holds a scan target at every position,
\* and at the position where a pair of alias and column first appears in
\* the select list it holds the scan target of that pair.
ScanTargetAtFirstPosition ==
    scanResult \in {"running", "ok", "error"} /\ ~queryErr =>
        LET dests == columnsForScanning(b.selectColumns)
            own == columnsByTableAlias(b.selectColumns)
        IN  /\ \A i \in DOMAIN dests : ~dests[i].isNil
            /\ \A i \in DOMAIN b.selectColumns :
                   FirstPosition(b.selectColumns, i) =>
                       /\ ~dests[i].isNil
                       /\ dests[i].alias = tableAlias(b.selectColumns[i].table)
                       /\ own[dests[i].alias][dests[i].j] = b.selectColumns[i].name

\* the clause stage a SELECT builder is in, by its previous action
Stage(bb) ==
    CASE bb.previousAction = previousIsSelect -> 1
      [] bb.previousAction = previousIsSelectFrom -> 2
      [] bb.previousAction = previousIsSelectJoin -> 3
      [] bb.previousAction = previousIsSelectWhere -> 4
      [] bb.previousAction = previousIsSelectOrderBy -> 5
      [] bb.previousAction \in {previousIsSelectOffset, previousIsSelectLimit} -> 6
      [] OTHER -> 0

\* the calls of the stages before ORDER BY
CallsBeforeOrderBy == {"Select", "From", "Join", "Where", "And", "Or", "Args"}

\* C31: in every step of a SELECT builder the clause stage (Select < From <
\* Join < Where < OrderBy < paging) stays or goes forward; an accepted OrderBy
\* leaves the builder in the OrderBy stage and an accepted Offset or Limit in
\* the paging stage; from the OrderBy stage on no Select, From, Join, Where,
\* And, Or or Args is accepted; and in the paging stage the only fluent calls
\* accepted are Offset when the previous action is Limit and Limit when it is
\* Offset.
StageNeverGoesBack ==
    [][/\ Stage(b') >= Stage(b)
       /\ (lastCall' = "OrderBy" /\ lastResult' = "ok") => Stage(b') = 5
       /\ (lastCall' \in {"Offset", "Limit"} /\ lastResult' = "ok") => Stage(b') = 6
       /\ (Stage(b) >= 5 /\ lastCall' \in CallsBeforeOrderBy) => lastResult' # "ok"
       /\ (Stage(b) = 6 /\ lastCall' # "Build" /\ lastResult' = "ok") =>
              \/ b.previousAction = previousIsSelectLimit /\ lastCall' = "Offset"
              \/ b.previousAction = previousIsSelectOffset /\ lastCall' = "Limit"]_vars

\* an Offset was accepted directly after a Limit, on a builder that has a
\* WHERE clause and an ORDER BY clause
OffsetAcceptedAfterLimit ==
    /\ lastCall = "Offset"
    /\ lastResult = "ok"
    /\ b.limit > 0
    /\ b.offset > 0
    /\ b.whereTokens # << >>
    /\ b.orders # << >>

\* the outcome of a call that panicked holds the builder the call was made on
Untouched(bb, r) ==
    r.panic => r.b = bb

\* C32: in every reachable state, a Select, From, Join, Where, OrderBy,
\* Offset, Values, OnConflict, DoUpdate or DoNothing that panics leaves the
\* builder as it was before the call, with its previous action, its alias
\* registry and its accumulators, whatever the call panicked for.
FailedCallLeavesBuilder ==
    /\ \A columns \in SelectColumnsPool : Untouched(b, Select(b, columns))
    /\ \A tables \in FromTablesPool : Untouched(b, From(b, tables))
    /\ \A joinOnTable \in JoinTablePool : \A onKeyPairs \in JoinKeyPairsPool :
           Untouched(b, Join(b, InnerJoin, joinOnTable, onKeyPairs))
    /\ \A whereTokens \in WhereTokensPool : Untouched(b, Where(b, whereTokens))
    /\ \A column \in OrderColumnPool : Untouched(b, OrderBy(b, column, ASC))
    /\ \A offset \in PagePool : Untouched(b, Offset(b, offset))
    /\ \A values \in ValuesPool : Untouched(b, Values(b, values))
    /\ \A columns \in ConflictKeysPool : Untouched(b, OnConflict(b, columns))
    /\ \A tokens \in UpdateTokensPool : Untouched(b, DoUpdate(b, tokens))
    /\ Untouched(b, DoNothing(b))

\* what a lookup by record type gives: that it panics, or the metadata
Lookup(typeName) ==
    IF GetTableMetadataPanics(typeName) THEN [panic |-> TRUE]
    ELSE [panic |-> FALSE, meta |-> GetTableMetadata(typeName)]

\* C33: a registration that panics, for a column name added twice, for the
\* primary keys or for a type registered already, leaves both registry maps
\* with the entries they had, and every lookup by record type gives after it
\* what it gave before.
FailedRegistrationLeavesRegistry ==
    [][(lastCall' = "Register" /\ lastResult' # "ok") =>
           /\ lastResult' \in {RefusedColumn, RefusedKeys, RefusedType}
           /\ registeredTableTypeToName' = registeredTableTypeToName
           /\ registeredTables' = registeredTables
           /\ \A typeName \in TypePool : Lookup(typeName)' = Lookup(typeName)]_vars

\* a registration was refused for its primary keys when two tables were
\* registered
RefusedForKeysWithTwoRegistered ==
    /\ lastCall = "Register"
    /\ lastResult = RefusedKeys
    /\ Cardinality(DOMAIN registeredTableTypeToName) = 2
    /\ \A typeName \in DOMAIN registeredTableTypeToName : ~Lookup(typeName).panic

\* C34: once a Next on the ScannedRows has returned false, a further Next
\* returns false too and does not panic, whatever the number of logical rows.
NextStaysFalse ==
    (/\ scanResult = "ok"
     /\ nextReturns # << >>
     /\ ~nextReturns[Len(nextReturns)]) =>
        /\ ~ScannedRowsNext(sr).panic
        /\ ~RowInRange(ScannedRowsNext(sr).sr)

\* scanRows has returned the ScannedRows and no Next was called on it
FreshRows ==
    scanResult = "ok" /\ ~sr.anyNext

\* ReadAllFromRows returns one record per logical row, the k-th being the
\* record of the descriptor's alias in the k-th logical row
ReadsEveryRow(t) ==
    LET r == ReadAllFromRows(t, sr)
    IN  /\ ~r.panic
        /\ Len(r.result) = Len(sr.rowsOfAliasToRow)
        /\ \A k \in DOMAIN r.result :
               r.result[k] = sr.rowsOfAliasToRow[k][tableAlias(t)].value

ExceptColumnsPool ==
    {<< "pk1" >>, << "cost", "nosuch" >>,
     << "pk1", "pk2", "amount", "cost" >>, << "amount", "pk3", "pk2", "pk1" >>}

\* C36: for a sealed descriptor and a non-empty list of names, ColumnsExcept
\* returns the columns of the table whose names are not in the list, in the
\* order of registration, and so no column when the list names them all.
ColumnsExceptReturnsTheOthers ==
    \A t \in ReferencedTables(b) \cup {t1, t2} :
        \A exceptColumns \in ExceptColumnsPool :
            LET NotExcepted(c) ==
                    \A i \in DOMAIN exceptColumns :
                        c.name # wrapWithDoubleQuoteIfSqlKeyword(exceptColumns[i])
            IN  t.sealed =>
                    /\ ~ColumnsExcept(t, exceptColumns).panic
                    /\ ColumnsExcept(t, exceptColumns).columns
                           = SelectSeq(allColumns(t), NotExcepted)

\* the ON columns come in pairs of columns of tables of different names, of
\* which one is the name of the joined table
WellFormedPairs(joinOnTable, onKeyPairs) ==
    /\ Len(onKeyPairs) % 2 = 0
    /\ \A i \in DOMAIN onKeyPairs :
           i % 2 = 1 =>
               /\ tableName(onKeyPairs[i].table) # tableName(onKeyPairs[i + 1].table)
               /\ tableName(joinOnTable) \in {tableName(onKeyPairs[i].table),
                                               tableName(onKeyPairs[i + 1].table)}

\* the alias registry of the builder holds the descriptor
Recorded(bb, t) ==
    /\ tableAlias(t) \in DOMAIN bb.aliasToTableUniqueId
    /\ bb.aliasToTableUniqueId[tableAlias(t)] = uniqueIdentity(t)

\* C37: in every reachable state, a Join that is accepted has an even number
\* of ON columns whose pairs are of two table names of which one is the
\* joined table's, and after it the alias registry of the builder holds the
\* joined table and the owner of every ON column.
AcceptedJoinIsWellFormedAndRecorded ==
    \A joinOnTable \in JoinDescriptorPool : \A onKeyPairs \in JoinKeyPairsPool :
        LET r == Join(b, InnerJoin, joinOnTable, onKeyPairs)
        IN  ~r.panic =>
                /\ WellFormedPairs(joinOnTable, onKeyPairs)
                /\ \A t \in {joinOnTable} \cup Range(TablesOf(onKeyPairs)) :
                       Recorded(r.b, t)

\* C38: whenever Build returns on an INSERT builder a statement that holds
\* `DO UPDATE SET`, the piece after it is the blank that opens an update
\* token, which follows: the assignment list is not empty.
UpdateSetIsNeverEmpty ==
    (/\ b._type = sqlBuilderTypeInsert
     /\ ~Build(b).panic
     /\ \E p \in DOMAIN Build(b).sql : Build(b).sql[p] = "DO UPDATE SET\n") =>
        LET sql == Build(b).sql
            p == CHOOSE p \in DOMAIN sql : sql[p] = "DO UPDATE SET\n"
        IN  /\ p + 2 <= Len(sql)
            /\ sql[p + 1] = " "
            /\ b.insertOnConflictDoUpdateTokens # << >>

\* ---------------------------------------------------------------------------
\* part_001: the column helpers that name the table, and the INSERT programs
\* on a descriptor renamed with As, the way a partition is addressed.
\* ---------------------------------------------------------------------------
NameWithTableName(c) == genericTableMeta(c.table).name \o "." \o c.name

FromCoalesceWithExcluded(c) ==
    c.name \o " = COALESCE(" \o NameWithTableName(c) \o ", " \o Excluded(c) \o ")"

EqualsToCurrent(c) == c.name \o " = " \o NameWithTableName(c)

Greatest(c) ==
    c.name \o " = GREATEST(" \o NameWithTableName(c) \o ", " \o Excluded(c) \o ")"

Least(c) ==
    c.name \o " = LEAST(" \o NameWithTableName(c) \o ", " \o Excluded(c) \o ")"

\* UseTable[testStruct1]().As("table1_2026").Alias("t1").Seal()
renamed1 == UseTable(7, "testStruct1", "table1_2026", "t1", TRUE)

RenamedColumnsPool ==
    {<< >>, << ColOf(renamed1, "cost"), ColOf(renamed1, "pk1") >>}

RenamedBuilders ==
    {InsertInto(renamed1, columns).b : columns \in RenamedColumnsPool}

RenamedConflictKeysPool ==
    {<< ColOf(renamed1, "pk1"), ColOf(renamed1, "pk2") >>,
     << ColOf(t1, "pk1") >>}

RenamedUpdateTokensPool ==
    {<< GoString(FromExcluded(ColOf(renamed1, "cost"))) >>,
     << GoString(EqualsToCurrent(ColOf(renamed1, "cost"))) >>,
     << GoString(FromCoalesceWithExcluded(ColOf(renamed1, "amount"))) >>,
     << GoString(Greatest(ColOf(renamed1, "amount"))) >>,
     << GoString(Least(ColOf(renamed1, "cost"))) >>}

RenamedWhereTokensPool ==
    {<< >>,
     << ColumnToken(ColOf(renamed1, "amount")), GoString(" = $1 ") >>}

InitRenamed == TestRegistry /\ InitBuilder(RenamedBuilders) /\ NoScan

CallOnConflictRenamed ==
    /\ Resumes
    /\ \E columns \in RenamedConflictKeysPool :
           Call("OnConflict", OnConflict(b, columns))

CallDoUpdateRenamed ==
    /\ Resumes
    /\ Len(b.insertOnConflictDoUpdateTokens) < MaxTokens
    /\ \E tokens \in RenamedUpdateTokensPool :
           Call("DoUpdate", DoUpdate(b, tokens))

CallWhereRenamed ==
    /\ Resumes
    /\ \E whereTokens \in RenamedWhereTokensPool :
           Call("Where", Where(b, whereTokens))

NextRenamed ==
    \/ CallValues
    \/ CallOnConflictRenamed
    \/ CallDoUpdateRenamed
    \/ CallWhereRenamed
    \/ CallBuild

SpecRenamed == InitRenamed /\ [][NextRenamed]_vars

\* the four fragments of the helpers for column c, written with table name n
QualifiedBy(n, c) ==
    {c.name \o " = " \o n \o "." \o c.name,
     c.name \o " = COALESCE(" \o n \o "." \o c.name \o ", " \o Excluded(c) \o ")",
     c.name \o " = GREATEST(" \o n \o "." \o c.name \o ", " \o Excluded(c) \o ")",
     c.name \o " = LEAST(" \o n \o "." \o c.name \o ", " \o Excluded(c) \o ")"}

HelperFragments(c) ==
    {EqualsToCurrent(c), FromCoalesceWithExcluded(c), Greatest(c), Least(c)}

\* C39: whenever Build has returned the statement of an INSERT into a table
\* renamed with As(n), the statement names n after INSERT INTO, every piece
\* of it that is a fragment of EqualsToCurrent, FromCoalesceWithExcluded,
\* Greatest or Least names the column as n.column, and every column token of
\* the DO UPDATE WHERE stream is rendered as n.column.
RenamedInsertNamesOneTable ==
    (/\ lastCall = "Build"
     /\ ~built.panic
     /\ b._type = sqlBuilderTypeInsert
     /\ tableName(b.insertIntoTable[1]) # genericTableMeta(b.insertIntoTable[1]).name) =>
        LET t == b.insertIntoTable[1]
            n == tableName(t)
            where == b.insertOnConflictDoUpdateWhereTokens
        IN  /\ built.sql[2] = n
            /\ \A i \in DOMAIN allColumns(t) : \A p \in DOMAIN built.sql :
                   built.sql[p] \in HelperFragments(allColumns(t)[i]) =>
                       built.sql[p] \in QualifiedBy(n, allColumns(t)[i])
            /\ \A i \in DOMAIN where :
                   where[i].t = "GenericColumnToUse" =>
                       RenderToken(where[i], TableDotName)
                           = n \o "." \o where[i].c.name

\* ---------------------------------------------------------------------------
\* table_metadata.go: GetTableMetadata in a goroutine of its own while the
\* goroutines of Goroutines are in Build.  The lookup takes no mutex: its two
\* map reads are steps between which, and with which, the stores of Build run.
\* ---------------------------------------------------------------------------
Reader == 3

LookupTypePool == {"testStruct1", "testStruct2"}

NoMetadata == [name |-> "", typeName |-> "", columns |-> << >>]

NotRegistered == "table for type is not registered"
InterfaceConversion == "interface conversion"
ConcurrentMapReadAndWrite == "fatal error: concurrent map read and map write"
ReturnedMetadata == "metadata"

InitLookup ==
    /\ sqlKeywords = predefinedList
    /\ registeredTableTypeToName = EmptyMap
    /\ registeredTables = EmptyMap
    /\ declared = EmptyMap
    /\ b = newSqlBuilder
    /\ lastCall = "new"
    /\ lastResult = "ok"
    /\ built = NoBuild
    /\ NoRoundTrip
    /\ NoScan
    /\ mutexRegisterTable = Unlocked
    /\ \E regs \in [Goroutines -> {[pc |-> "Lock", x |-> x, panic |-> NotRefused] :
                                      x \in ConcurrentPool}] :
       \E typeName \in LookupTypePool :
           registering = [p \in Goroutines \cup {Reader} |->
                             IF p \in Goroutines THEN regs[p]
                             ELSE [pc |-> "find name", typeName |-> typeName,
                                   name |-> "", outcome |-> "", meta |-> NoMetadata]]

\* the lookup is over with this outcome
LookupEnds(outcome, meta) ==
    /\ registering' = [registering EXCEPT ![Reader].pc = "done",
                                          ![Reader].outcome = outcome,
                                          ![Reader].meta = meta]
    /\ UNCHANGED << b, lastCall, lastResult, built, scanVars, regVars, roundTrip,
                    mutexRegisterTable >>

\* name, found := registeredTableTypeToName[typeName], and the panic of the
\* last line when it is not found; a goroutine about to store in the same map
\* makes the read a data race, which the runtime may end the program for
GetTableMetadataFindName ==
    /\ registering[Reader].pc = "find name"
    /\ LET typeName == registering[Reader].typeName
       IN  \/ /\ typeName \in DOMAIN registeredTableTypeToName
              /\ registering' = [registering EXCEPT
                     ![Reader].pc = "read table",
                     ![Reader].name = registeredTableTypeToName[typeName]]
              /\ UNCHANGED << b, lastCall, lastResult, built, scanVars, regVars,
                              roundTrip, mutexRegisterTable >>
           \/ /\ typeName \notin DOMAIN registeredTableTypeToName
              /\ LookupEnds(NotRegistered, NoMetadata)
           \/ /\ \E p \in Goroutines : registering[p].pc = "store name"
              /\ LookupEnds(ConcurrentMapReadAndWrite, NoMetadata)

\* return registeredTables[name].(TableMetadata[T]): the assertion panics on
\* the nil of a missing entry and on the metadata of another type
GetTableMetadataReadTable ==
    /\ registering[Reader].pc = "read table"
    /\ LET typeName == registering[Reader].typeName
           name == registering[Reader].name
       IN  \/ /\ name \in DOMAIN registeredTables
              /\ registeredTables[name].typeName = typeName
              /\ LookupEnds(ReturnedMetadata, registeredTables[name])
           \/ /\ IF name \in DOMAIN registeredTables
                 THEN registeredTables[name].typeName # typeName
                 ELSE TRUE
              /\ LookupEnds(InterfaceConversion, NoMetadata)
           \/ /\ \E p \in Goroutines : registering[p].pc = "store table"
              /\ LookupEnds(ConcurrentMapReadAndWrite, NoMetadata)

NextLookup ==
    \/ NextConcurrent
    \/ GetTableMetadataFindName
    \/ GetTableMetadataReadTable

SpecLookup == InitLookup /\ [][NextLookup]_vars

\* C40: whenever the lookup that ran beside the registrations is over, it has
\* failed as not registered or it has returned the metadata that one of the
\* registrations of its type declared, whole.
LookupSeesAllOrNothing ==
    registering[Reader].pc = "done" =>
        \/ registering[Reader].outcome = NotRegistered
        \/ /\ registering[Reader].outcome = ReturnedMetadata
           /\ \E p \in Goroutines :
                  /\ registering[p].x[1] = registering[Reader].typeName
                  /\ registering[Reader].meta = Registration(registering[p].x).meta

====
